---- MODULE Spec2Model ----
(***************************************************************************)
(* A model of server.js: the express routes over the PostgreSQL tables.    *)
(* A table is a set of rows; a handler is cut at its awaits, so that the   *)
(* statements of handlers serving different connections interleave; one    *)
(* SQL statement is one atomic step.                                       *)
(*                                                                         *)
(* Strings are sequences of one-character strings.  A value of a request   *)
(* body is a tagged record (Undefined, Null, Str, Arr, Obj), so that the   *)
(* JavaScript tests on them (!x, x || [], x.length) are computed.          *)
(***************************************************************************)
EXTENDS Integers, Sequences, FiniteSets, TLC

VARIABLES
    users,        \* table users: rows [id, email, password]
    usersSeq,     \* the sequence behind users.id (SERIAL): last value handed out
    authReq,      \* per connection: the /register, /signup or /login request in flight
    now,          \* the clock new Date() reads
    career_goals, \* table career_goals
    career_goals_seq,
    career_stage_history,   \* table career_stage_history
    career_stage_history_seq,
    goalReq,      \* per connection: the /career_goals request in flight or last answered
    profiles,     \* table profiles
    profiles_seq,
    profReq,      \* per connection: the /profile request in flight or last answered
    projects,     \* table projects
    projects_seq,
    ideas,        \* table ideas
    ideas_seq,
    notes,        \* table notes
    notes_seq,
    future_work,  \* table future_work
    future_work_seq,
    deadlines,    \* table deadlines
    deadlines_seq,
    calendar_events,   \* table calendar_events
    calendar_events_seq,
    crudReq,      \* the request the one-statement routes answered last
    updReq,       \* per connection: the PUT request whose UPDATE is in flight
    initDb        \* initializeDatabase: its position, its transaction, the process

authVars == <<users, usersSeq, authReq>>

goalVars == <<now, career_goals, career_goals_seq, career_stage_history,
              career_stage_history_seq, goalReq>>

profVars == <<profiles, profiles_seq, profReq>>

projectVars == <<projects, projects_seq>>

ideaVars == <<ideas, ideas_seq>>

noteVars == <<notes, notes_seq>>

futureVars == <<future_work, future_work_seq>>

deadlineVars == <<deadlines, deadlines_seq>>

eventVars == <<calendar_events, calendar_events_seq>>

crudVars == <<projectVars, ideaVars, noteVars, futureVars, deadlineVars, eventVars, crudReq>>

procVars == <<updReq, initDb>>

vars == <<users, usersSeq, authReq, now, career_goals, career_goals_seq,
          career_stage_history, career_stage_history_seq, goalReq,
          profiles, profiles_seq, profReq, crudVars, procVars>>

(***************************************************************************)
(* Bounds of the model.                                                    *)
(***************************************************************************)
NumClients == 2      \* connections whose requests overlap
MaxUsersSeq == 3     \* INSERTs into users that are tried
NumSalts == 2        \* salts bcrypt may draw
MaxTime == 1         \* ticks of the clock
MaxGoalsSeq == 2     \* INSERTs into career_goals that are tried
MaxHistorySeq == 2   \* INSERTs into career_stage_history that are tried
MaxProfilesSeq == 2  \* INSERTs into profiles that are tried
MaxRows == 2         \* INSERTs into one table of the one-statement routes that are tried
MaxTables == 1       \* tables of the one-statement routes that are written to

Clients == 1..NumClients
Salts == 1..NumSalts

(***************************************************************************)
(* JavaScript values and strings.                                          *)
(***************************************************************************)
Undefined == [t |-> "undefined"]
Null == [t |-> "null"]
Str(s) == [t |-> "string", s |-> s]

Num(n) == [t |-> "number", n |-> n]

\* !v for the values a JSON body carries here
Falsy(v) ==
    \/ v.t \in {"undefined", "null"}
    \/ (v.t = "string" /\ "s" \in DOMAIN v /\ v.s = <<>>)
    \/ (v.t = "number" /\ v.n = 0)
    \/ (v.t = "boolean" /\ ~v.b)

\* a || b
OrElse(a, b) == IF Falsy(a) THEN b ELSE a

\* new Date().toISOString() at clock value n: a string, kept as its instant
toISOString(n) == [t |-> "string", instant |-> n]

\* what node-postgres sends for a parameter: undefined goes as NULL
Param(v) == IF v.t = "undefined" THEN Null ELSE v

LowerChar(c) == CASE c = "A" -> "a" [] c = "B" -> "b" [] OTHER -> c

\* String.prototype.toLowerCase
toLowerCase(s) == [i \in 1..Len(s) |-> LowerChar(s[i])]

IsSpace(c) == c = " "

RECURSIVE trimStart(_)
trimStart(s) == IF s # <<>> /\ IsSpace(Head(s)) THEN trimStart(Tail(s)) ELSE s

RECURSIVE trimEnd(_)
trimEnd(s) ==
    IF s # <<>> /\ IsSpace(s[Len(s)]) THEN trimEnd(SubSeq(s, 1, Len(s) - 1)) ELSE s

\* String.prototype.trim
trim(s) == trimEnd(trimStart(s))

(***************************************************************************)
(* JSON.stringify and JSON.parse, over the characters of the text.  The    *)
(* values are null, strings, the natural numbers, arrays and objects (an   *)
(* object is the sequence of its members <<key, value>>, in insertion      *)
(* order).                                                                 *)
(***************************************************************************)
Arr(a) == [t |-> "array", a |-> a]

Obj(m) == [t |-> "object", m |-> m]

Digit(d) == CASE d = 0 -> "0" [] d = 1 -> "1" [] d = 2 -> "2" [] d = 3 -> "3" [] d = 4 -> "4"
              [] d = 5 -> "5" [] d = 6 -> "6" [] d = 7 -> "7" [] d = 8 -> "8" [] d = 9 -> "9"

RECURSIVE Digits(_)
Digits(n) == IF n < 10 THEN <<Digit(n)>> ELSE Digits(n \div 10) \o <<Digit(n % 10)>>

RECURSIVE QuoteChars(_)
QuoteChars(s) ==
    IF s = <<>> THEN <<>>
    ELSE (IF Head(s) \in {"\"", "\\"} THEN <<"\\", Head(s)>> ELSE <<Head(s)>>)
         \o QuoteChars(Tail(s))

Quote(s) == <<"\"">> \o QuoteChars(s) \o <<"\"">>

RECURSIVE stringify(_)
RECURSIVE stringifyElements(_)
RECURSIVE stringifyMembers(_, _)

\* JSON.stringify of a value that is not undefined
stringify(v) ==
    CASE v.t = "null" -> <<"n", "u", "l", "l">>
      [] v.t = "string" -> Quote(v.s)
      [] v.t = "number" -> Digits(v.n)
      [] v.t = "array" -> <<"[">> \o stringifyElements(v.a) \o <<"]">>
      [] v.t = "object" -> <<"{">> \o stringifyMembers(v.m, TRUE) \o <<"}">>

stringifyElements(a) ==
    IF a = <<>> THEN <<>>
    ELSE (IF Head(a).t = "undefined" THEN <<"n", "u", "l", "l">> ELSE stringify(Head(a)))
         \o (IF Tail(a) = <<>> THEN <<>> ELSE <<",">> \o stringifyElements(Tail(a)))

stringifyMembers(m, first) ==
    IF m = <<>> THEN <<>>
    ELSE IF Head(m)[2].t = "undefined" THEN stringifyMembers(Tail(m), first)
    ELSE (IF first THEN <<>> ELSE <<",">>)
         \o Quote(Head(m)[1]) \o <<":">> \o stringify(Head(m)[2])
         \o stringifyMembers(Tail(m), FALSE)

\* JSON.parse: a recursive descent over the text; [ok, v, i] with i the
\* index after the value
ParseFail == [ok |-> FALSE, v |-> Null, i |-> 0]

At(s, i) == IF i >= 1 /\ i <= Len(s) THEN s[i] ELSE "EOF"

DigitChars == {"0", "1", "2", "3", "4", "5", "6", "7", "8", "9"}

DigitValue(c) == CHOOSE d \in 0..9 : Digit(d) = c

RECURSIVE parseString(_, _, _)
parseString(s, i, acc) ==
    CASE At(s, i) = "EOF" -> ParseFail
      [] At(s, i) = "\"" -> [ok |-> TRUE, v |-> Str(acc), i |-> i + 1]
      [] At(s, i) = "\\" ->
            IF At(s, i + 1) \in {"\"", "\\"}
            THEN parseString(s, i + 2, Append(acc, At(s, i + 1)))
            ELSE ParseFail
      [] OTHER -> parseString(s, i + 1, Append(acc, At(s, i)))

RECURSIVE parseNumber(_, _, _)
parseNumber(s, i, acc) ==
    IF At(s, i) \in DigitChars
    THEN parseNumber(s, i + 1, 10 * acc + DigitValue(At(s, i)))
    ELSE [ok |-> TRUE, v |-> Num(acc), i |-> i]

RECURSIVE parseValue(_, _)
RECURSIVE parseElements(_, _, _)
RECURSIVE parseMembers(_, _, _)

parseValue(s, i) ==
    CASE At(s, i) = "\"" -> parseString(s, i + 1, <<>>)
      [] At(s, i) \in DigitChars ->
            IF At(s, i) = "0" /\ At(s, i + 1) \in DigitChars THEN ParseFail
            ELSE parseNumber(s, i, 0)
      [] At(s, i) = "n" ->
            IF SubSeq(s, i, i + 3) = <<"n", "u", "l", "l">>
            THEN [ok |-> TRUE, v |-> Null, i |-> i + 4] ELSE ParseFail
      [] At(s, i) = "[" ->
            IF At(s, i + 1) = "]" THEN [ok |-> TRUE, v |-> Arr(<<>>), i |-> i + 2]
            ELSE parseElements(s, i + 1, <<>>)
      [] At(s, i) = "{" ->
            IF At(s, i + 1) = "}" THEN [ok |-> TRUE, v |-> Obj(<<>>), i |-> i + 2]
            ELSE parseMembers(s, i + 1, <<>>)
      [] OTHER -> ParseFail

parseElements(s, i, acc) ==
    LET e == parseValue(s, i) IN
    IF ~e.ok THEN ParseFail
    ELSE CASE At(s, e.i) = "," -> parseElements(s, e.i + 1, Append(acc, e.v))
           [] At(s, e.i) = "]" -> [ok |-> TRUE, v |-> Arr(Append(acc, e.v)), i |-> e.i + 1]
           [] OTHER -> ParseFail

parseMembers(s, i, acc) ==
    IF At(s, i) # "\"" THEN ParseFail
    ELSE LET k == parseString(s, i + 1, <<>>) IN
         IF ~k.ok \/ At(s, k.i) # ":" THEN ParseFail
         ELSE LET e == parseValue(s, k.i + 1) IN
              IF ~e.ok THEN ParseFail
              ELSE CASE At(s, e.i) = "," ->
                          parseMembers(s, e.i + 1, Append(acc, <<k.v.s, e.v>>))
                     [] At(s, e.i) = "}" ->
                          [ok |-> TRUE, v |-> Obj(Append(acc, <<k.v.s, e.v>>)), i |-> e.i + 1]
                     [] OTHER -> ParseFail

\* JSON.parse(text): the value, or a SyntaxError
parse(s) ==
    LET r == parseValue(s, 1) IN
    IF r.ok /\ r.i = Len(s) + 1 THEN [ok |-> TRUE, v |-> r.v] ELSE [ok |-> FALSE, v |-> Null]

(***************************************************************************)
(* bcryptjs.  The hash string "$2a$<rounds>$<salt><digest>" is kept as the *)
(* record of its parts; the digest is an injective image of (salt,         *)
(* password), which is what the one-way function is up to collisions.      *)
(***************************************************************************)
saltRounds == 10

\* bcrypt.hash(password, saltRounds) when the salt generated is `salt`
bcryptHash(password, rounds, salt) ==
    [version |-> "2a", rounds |-> rounds, salt |-> salt, digest |-> <<salt, password>>]

\* bcrypt.compare(password, hash): hash the password again with the salt and
\* the rounds the hash carries
bcryptCompare(password, hash) == hash = bcryptHash(password, hash.rounds, hash.salt)

(***************************************************************************)
(* Responses: res.status(s).json(body); res.json(body) is status 200.      *)
(***************************************************************************)
NoResponse == [status |-> 0]

\* res.json sends the body as application/json
Json(status, body) == [status |-> status, body |-> body, type |-> "application/json"]

AuthFailure(status, message) == Json(status, [success |-> FALSE, message |-> message])

\* the row a handler holds before its query has answered
NoRow == [id |-> 0]

(***************************************************************************)
(* Table users: id SERIAL PRIMARY KEY, email TEXT UNIQUE, password TEXT.   *)
(***************************************************************************)
\* INSERT INTO users (email, password) VALUES ($1, $2) RETURNING id, email.
\* The default of id draws from the sequence before the constraint is
\* checked, so a refused insert consumes an id.  A violated UNIQUE(email)
\* raises the error 23505.
InsertUser(tbl, seq, email, password) ==
    LET id == seq + 1 IN
    IF \E u \in tbl : u.email = email
    THEN [ok |-> FALSE, code |-> "23505", users |-> tbl, seq |-> id, rows |-> <<>>]
    ELSE [ok |-> TRUE, code |-> "",
          users |-> tbl \cup {[id |-> id, email |-> email, password |-> password]},
          seq |-> id,
          rows |-> <<[id |-> id, email |-> email]>>]

\* SELECT * FROM users WHERE email = $1
SelectUsersByEmail(tbl, email) == {u \in tbl : u.email = email}

(***************************************************************************)
(* Request bodies of the auth routes.  `name` is read by /register and     *)
(* used by neither route, so the bodies carry only email and password.     *)
(***************************************************************************)
Secr1 == <<"s", "e", "c", "r", "1">>

Secre1 == <<"s", "e", "c", "r", "e", "1">>

Wrong1 == <<"w", "r", "o", "n", "g", "1">>

AuthBodies ==
    {[email |-> Undefined, password |-> Str(Secre1)],
     [email |-> Str(<<"a">>), password |-> Undefined],
     [email |-> Str(<<"a">>), password |-> Str(Secr1)],
     [email |-> Str(<<"a">>), password |-> Str(Secre1)],
     [email |-> Str(<<" ", "A", " ">>), password |-> Str(Secre1)],
     [email |-> Str(<<" ", "A", " ">>), password |-> Str(Wrong1)],
     [email |-> Str(<<"b">>), password |-> Str(Secre1)]}

\* a connection that has sent nothing yet
IdleRequest == [op |-> "idle", pc |-> "idle", res |-> NoResponse]

\* a connection takes a new request once the last one has been answered
Free(req) == req.pc \in {"idle", "done"}

(***************************************************************************)
(* POST /register                                                          *)
(***************************************************************************)
\* RegisterValidate with the comparison off by one: six characters are refused
RegisterValidate_SixRefused(body) ==
    IF Falsy(body.email) \/ Falsy(body.password)
    THEN AuthFailure(400, "Email and password are required.")
    ELSE IF Len(body.password.s) <= 6
    THEN AuthFailure(400, "Password must be at least 6 characters long.")
    ELSE NoResponse

\* RegisterValidate without the test of the length
RegisterValidate_NoLength(body) ==
    IF Falsy(body.email) \/ Falsy(body.password)
    THEN AuthFailure(400, "Email and password are required.")
    ELSE NoResponse

\* lines 261-267: the response of a refused body, NoResponse when it passes
RegisterValidate(body) ==
    IF Falsy(body.email) \/ Falsy(body.password)
    THEN AuthFailure(400, "Email and password are required.")
    ELSE IF Len(body.password.s) < 6
    THEN AuthFailure(400, "Password must be at least 6 characters long.")
    ELSE NoResponse

\* RegisterStore storing the email trimmed and not lowercased
RegisterStore_CaseSensitive(tbl, seq, body, salt) ==
    LET hashedPassword == bcryptHash(body.password.s, saltRounds, salt)
        result == InsertUser(tbl, seq, trim(body.email.s), hashedPassword)
    IN  [users |-> result.users,
         seq |-> result.seq,
         res |-> IF result.ok
                 THEN Json(200, [success |-> TRUE,
                                 id |-> result.rows[1].id,
                                 email |-> result.rows[1].email,
                                 message |-> "Account created successfully!"])
                 ELSE IF result.code = "23505"
                 THEN AuthFailure(400, "User already exists.")
                 ELSE AuthFailure(500, "Server error during signup.")]

\* lines 269-290: hash, INSERT, and the response of either outcome
RegisterStore(tbl, seq, body, salt) ==
    LET hashedPassword == bcryptHash(body.password.s, saltRounds, salt)
        result == InsertUser(tbl, seq, trim(toLowerCase(body.email.s)), hashedPassword)
    IN  [users |-> result.users,
         seq |-> result.seq,
         res |-> IF result.ok
                 THEN Json(200, [success |-> TRUE,
                                 id |-> result.rows[1].id,
                                 email |-> result.rows[1].email,
                                 message |-> "Account created successfully!"])
                 ELSE IF result.code = "23505"
                 THEN AuthFailure(400, "User already exists.")
                 ELSE AuthFailure(500, "Server error during signup.")]

RegisterReceive(c, body) ==
    /\ Free(authReq[c])
    /\ LET refused == RegisterValidate(body) IN
       authReq' = [authReq EXCEPT ![c] =
                      [op |-> "register",
                       pc |-> IF refused = NoResponse THEN "insert" ELSE "done",
                       body |-> body, user |-> NoRow, snapshot |-> {}, res |-> refused]]
    /\ UNCHANGED <<users, usersSeq>>
    /\ UNCHANGED <<goalVars, profVars, crudVars, procVars>>

RegisterInsert(c) ==
    /\ authReq[c].op = "register"
    /\ authReq[c].pc = "insert"
    /\ usersSeq < MaxUsersSeq
    /\ \E salt \in Salts :
          LET out == RegisterStore(users, usersSeq, authReq[c].body, salt) IN
          /\ users' = out.users
          /\ usersSeq' = out.seq
          /\ authReq' = [authReq EXCEPT ![c].pc = "done", ![c].res = out.res]
    /\ UNCHANGED <<goalVars, profVars, crudVars, procVars>>

(***************************************************************************)
(* POST /signup                                                            *)
(***************************************************************************)
\* lines 297-303
SignupValidate(body) ==
    IF Falsy(body.email) \/ Falsy(body.password)
    THEN AuthFailure(400, "Email and password are required.")
    ELSE IF Len(body.password.s) < 6
    THEN AuthFailure(400, "Password must be at least 6 characters long.")
    ELSE NoResponse

\* SignupStore storing the email lowercased and not trimmed
SignupStore_Untrimmed(tbl, seq, body, salt) ==
    LET hashedPassword == bcryptHash(body.password.s, saltRounds, salt)
        result == InsertUser(tbl, seq, toLowerCase(body.email.s), hashedPassword)
    IN  [users |-> result.users,
         seq |-> result.seq,
         res |-> IF result.ok
                 THEN Json(200, [success |-> TRUE,
                                 id |-> result.rows[1].id,
                                 email |-> result.rows[1].email,
                                 message |-> "Account created successfully!"])
                 ELSE IF result.code = "23505"
                 THEN AuthFailure(400, "User already exists.")
                 ELSE AuthFailure(500, "Server error during signup.")]

\* lines 305-326
SignupStore(tbl, seq, body, salt) ==
    LET hashedPassword == bcryptHash(body.password.s, saltRounds, salt)
        result == InsertUser(tbl, seq, trim(toLowerCase(body.email.s)), hashedPassword)
    IN  [users |-> result.users,
         seq |-> result.seq,
         res |-> IF result.ok
                 THEN Json(200, [success |-> TRUE,
                                 id |-> result.rows[1].id,
                                 email |-> result.rows[1].email,
                                 message |-> "Account created successfully!"])
                 ELSE IF result.code = "23505"
                 THEN AuthFailure(400, "User already exists.")
                 ELSE AuthFailure(500, "Server error during signup.")]

SignupReceive(c, body) ==
    /\ Free(authReq[c])
    /\ LET refused == SignupValidate(body) IN
       authReq' = [authReq EXCEPT ![c] =
                      [op |-> "signup",
                       pc |-> IF refused = NoResponse THEN "insert" ELSE "done",
                       body |-> body, user |-> NoRow, snapshot |-> {}, res |-> refused]]
    /\ UNCHANGED <<users, usersSeq>>
    /\ UNCHANGED <<goalVars, profVars, crudVars, procVars>>

SignupInsert(c) ==
    /\ authReq[c].op = "signup"
    /\ authReq[c].pc = "insert"
    /\ usersSeq < MaxUsersSeq
    /\ \E salt \in Salts :
          LET out == SignupStore(users, usersSeq, authReq[c].body, salt) IN
          /\ users' = out.users
          /\ usersSeq' = out.seq
          /\ authReq' = [authReq EXCEPT ![c].pc = "done", ![c].res = out.res]
    /\ UNCHANGED <<goalVars, profVars, crudVars, procVars>>

(***************************************************************************)
(* POST /login                                                             *)
(***************************************************************************)
\* lines 333-335
LoginValidate(body) ==
    IF Falsy(body.email) \/ Falsy(body.password)
    THEN AuthFailure(400, "Email and password are required.")
    ELSE NoResponse

\* LoginRows looking the email up trimmed and not lowercased
LoginRows_CaseSensitive(tbl, body) == SelectUsersByEmail(tbl, trim(body.email.s))

\* lines 338-341: the rows the SELECT answers
LoginRows(tbl, body) == SelectUsersByEmail(tbl, trim(toLowerCase(body.email.s)))

\* LoginNoUser telling that the email is unknown
LoginNoUser_Reveals == AuthFailure(404, "User not found.")

\* lines 343-345: no row
LoginNoUser == AuthFailure(400, "Invalid credentials.")

\* lines 348-358: compare, and the response of either outcome
LoginVerdict(body, user) ==
    LET passwordMatch == bcryptCompare(body.password.s, user.password) IN
    IF ~passwordMatch
    THEN AuthFailure(400, "Invalid credentials.")
    ELSE Json(200, [success |-> TRUE, email |-> user.email, message |-> "Login successful!"])

LoginReceive(c, body) ==
    /\ Free(authReq[c])
    /\ LET refused == LoginValidate(body) IN
       authReq' = [authReq EXCEPT ![c] =
                      [op |-> "login",
                       pc |-> IF refused = NoResponse THEN "select" ELSE "done",
                       body |-> body, user |-> NoRow, snapshot |-> {}, res |-> refused]]
    /\ UNCHANGED <<users, usersSeq>>
    /\ UNCHANGED <<goalVars, profVars, crudVars, procVars>>

\* the SELECT runs; `snapshot` keeps the table it ran on.  With no row the
\* handler answers at once, else it awaits bcrypt.compare on rows[0].
LoginSelect(c) ==
    /\ authReq[c].op = "login"
    /\ authReq[c].pc = "select"
    /\ LET rows == LoginRows(users, authReq[c].body) IN
       IF rows = {}
       THEN authReq' = [authReq EXCEPT ![c].pc = "done", ![c].snapshot = users,
                                       ![c].res = LoginNoUser]
       ELSE \E user \in rows :
               authReq' = [authReq EXCEPT ![c].pc = "compare", ![c].snapshot = users,
                                          ![c].user = user]
    /\ UNCHANGED <<users, usersSeq>>
    /\ UNCHANGED <<goalVars, profVars, crudVars, procVars>>

LoginCompare(c) ==
    /\ authReq[c].op = "login"
    /\ authReq[c].pc = "compare"
    /\ authReq' = [authReq EXCEPT ![c].pc = "done",
                                  ![c].res = LoginVerdict(authReq[c].body, authReq[c].user)]
    /\ UNCHANGED <<users, usersSeq>>
    /\ UNCHANGED <<goalVars, profVars, crudVars, procVars>>

(***************************************************************************)
(* The clock.                                                              *)
(***************************************************************************)
Tick ==
    /\ now < MaxTime
    /\ now' = now + 1

(***************************************************************************)
(* Tables career_goals and career_stage_history.                           *)
(*   career_goals.user_email REFERENCES users(email)                       *)
(*   career_stage_history.goal_id REFERENCES career_goals(id)              *)
(*                                ON DELETE CASCADE                        *)
(***************************************************************************)
\* RefersToUser comparing as /register stores: trimmed, in lower case
RefersToUser_Normalized(tbl, email) ==
    email = Null \/ \E u \in tbl : u.email = trim(toLowerCase(email.s))

\* a foreign key lets NULL through and wants the referenced value otherwise
RefersToUser(tbl, email) == email = Null \/ \E u \in tbl : Str(u.email) = email

\* INSERT INTO career_goals (...) VALUES ($1..$11) RETURNING *
InsertGoal(goals, seq, usersTbl, values) ==
    LET id == seq + 1
        row == [id |-> id] @@ values
    IN  IF RefersToUser(usersTbl, values.user_email)
        THEN [ok |-> TRUE, code |-> "", goals |-> goals \cup {row}, seq |-> id, rows |-> <<row>>]
        ELSE [ok |-> FALSE, code |-> "23503", goals |-> goals, seq |-> id, rows |-> <<>>]

\* InsertHistory into a table whose goal_id references nothing: every row is
\* stored
InsertHistory_NoReference(history, seq, goals, goal_id, stage, description, updated_date) ==
    LET id == seq + 1
        row == [id |-> id, goal_id |-> goal_id, stage |-> stage,
                description |-> description, updated_date |-> updated_date]
    IN  [ok |-> TRUE, code |-> "", history |-> history \cup {row}, seq |-> id,
         rows |-> <<row>>]

\* INSERT INTO career_stage_history (goal_id, stage, description, updated_date)
\* VALUES ($1, $2, $3, $4) RETURNING *
InsertHistory(history, seq, goals, goal_id, stage, description, updated_date) ==
    LET id == seq + 1
        row == [id |-> id, goal_id |-> goal_id, stage |-> stage,
                description |-> description, updated_date |-> updated_date]
    IN  IF \E g \in goals : g.id = goal_id
        THEN [ok |-> TRUE, code |-> "", history |-> history \cup {row}, seq |-> id,
              rows |-> <<row>>]
        ELSE [ok |-> FALSE, code |-> "23503", history |-> history, seq |-> id, rows |-> <<>>]

\* DeleteHistoryOfGoal without its WHERE clause: every row goes
DeleteHistoryOfGoal_All(history, goal_id) ==
    [history |-> {}, rowCount |-> Cardinality(history)]

\* DELETE FROM career_stage_history WHERE goal_id = $1
DeleteHistoryOfGoal(history, goal_id) ==
    [history |-> {h \in history : h.goal_id # goal_id},
     rowCount |-> Cardinality({h \in history : h.goal_id = goal_id})]

\* CascadeHistory of a foreign key declared without ON DELETE CASCADE and not
\* enforced: the rows stay
CascadeHistory_None(history, gone) == history

\* the rows ON DELETE CASCADE removes with the goals `gone`
CascadeHistory(history, gone) == {h \in history : \A g \in gone : h.goal_id # g.id}

\* DELETE FROM career_goals WHERE id = $1, with the cascade of line 152
DeleteGoal(goals, history, id) ==
    LET gone == {g \in goals : g.id = id} IN
    [goals |-> goals \ gone,
     history |-> CascadeHistory(history, gone),
     rowCount |-> Cardinality(gone)]

\* DELETE FROM career_stage_history WHERE id = $1 AND goal_id = $2
DeleteHistoryEntry(history, id, goal_id) ==
    [history |-> {h \in history : ~(h.id = id /\ h.goal_id = goal_id)},
     rowCount |-> Cardinality({h \in history : h.id = id /\ h.goal_id = goal_id})]

\* ORDER BY stage ASC, updated_date DESC: may a stand before b
HistoryOrder(a, b) ==
    \/ a.stage < b.stage
    \/ (a.stage = b.stage /\ a.updated_date.instant >= b.updated_date.instant)

\* SELECT * FROM career_stage_history WHERE goal_id = $1 ORDER BY stage ASC,
\* updated_date DESC: the orders in which the rows may be answered
SelectHistory(history, goal_id) ==
    LET S == {h \in history : h.goal_id = goal_id}
    IN  {q \in [1..Cardinality(S) -> S] :
            \A i, j \in 1..Cardinality(S) :
                i < j => (q[i] # q[j] /\ HistoryOrder(q[i], q[j]))}

(***************************************************************************)
(* The /career_goals routes.                                               *)
(***************************************************************************)
\* res.status(s).send(text): the body goes as text/html
Html(status, title) == [status |-> status, body |-> title, type |-> "text/html"]

\* JsonError answering with a document
JsonError_Html(status, message) == Html(status, message)

JsonError(status, message) == Json(status, [error |-> message])

GoalBodies ==
    {[user_email |-> Str(<<"a">>), title |-> Str(<<"P">>), description |-> Undefined,
      progress |-> Undefined, goal_type |-> Undefined, target_date |-> Undefined,
      total_stages |-> Undefined, current_stage |-> Undefined, start_date |-> Undefined,
      stage_description |-> Undefined, created_date |-> Undefined],
     [user_email |-> Str(<<"a">>), title |-> Str(<<"Q">>), description |-> Str(<<"d">>),
      progress |-> Num(40), goal_type |-> Str(<<"g">>), target_date |-> Str(<<"t">>),
      total_stages |-> Num(3), current_stage |-> Num(1), start_date |-> Str(<<"s">>),
      stage_description |-> Str(<<"e">>), created_date |-> Str(<<"c">>)]}

HistoryBodies ==
    {[stage |-> 1, description |-> Str(<<"d">>)],
     [stage |-> 2, description |-> Undefined]}

GoalIds == 1..MaxGoalsSeq

HistoryIds == 1..MaxHistorySeq

IdleGoalRequest == IdleRequest

Answered(op, id, removed, res) ==
    [op |-> op, pc |-> "done", id |-> id, removed |-> removed, res |-> res]

\* POST /career_goals, lines 712-736
CreateGoal(c, body) ==
    /\ Free(goalReq[c])
    /\ career_goals_seq < MaxGoalsSeq
    /\ LET date == OrElse(body.created_date, toISOString(now))
           result == InsertGoal(career_goals, career_goals_seq, users,
                        [user_email |-> Param(body.user_email),
                         title |-> Param(body.title),
                         description |-> Param(body.description),
                         progress |-> OrElse(body.progress, Num(0)),
                         goal_type |-> OrElse(body.goal_type, Str(<<"g", "e", "n", "e", "r", "a", "l">>)),
                         target_date |-> Param(body.target_date),
                         total_stages |-> OrElse(body.total_stages, Num(5)),
                         current_stage |-> OrElse(body.current_stage, Num(0)),
                         start_date |-> Param(body.start_date),
                         stage_description |-> Param(body.stage_description),
                         created_date |-> date])
       IN  /\ career_goals' = result.goals
           /\ career_goals_seq' = result.seq
           /\ goalReq' = [goalReq EXCEPT ![c] =
                 Answered("createGoal", result.seq, 0,
                          IF result.ok THEN Json(200, result.rows[1])
                          ELSE JsonError(500, "Error creating career goal."))]
    /\ UNCHANGED <<now, career_stage_history, career_stage_history_seq>>
    /\ UNCHANGED <<authVars, profVars, crudVars, procVars>>

\* DELETE /career_goals/:id, line 767: the first statement
DeleteGoalHistory(c, id) ==
    /\ Free(goalReq[c])
    /\ LET result == DeleteHistoryOfGoal(career_stage_history, id) IN
       /\ career_stage_history' = result.history
       /\ goalReq' = [goalReq EXCEPT ![c] =
             [op |-> "deleteGoal", pc |-> "goal", id |-> id, removed |-> result.rowCount,
              res |-> NoResponse]]
    /\ UNCHANGED <<now, career_goals, career_goals_seq, career_stage_history_seq>>
    /\ UNCHANGED <<authVars, profVars, crudVars, procVars>>

\* DELETE /career_goals/:id, lines 770-771: the second statement and the answer
DeleteGoalRow(c) ==
    /\ goalReq[c].op = "deleteGoal"
    /\ goalReq[c].pc = "goal"
    /\ LET result == DeleteGoal(career_goals, career_stage_history, goalReq[c].id) IN
       /\ career_goals' = result.goals
       /\ career_stage_history' = result.history
       /\ goalReq' = [goalReq EXCEPT ![c].pc = "done",
                                     ![c].res = Json(200, [deleted |-> result.rowCount])]
    /\ UNCHANGED <<now, career_goals_seq, career_stage_history_seq>>
    /\ UNCHANGED <<authVars, profVars, crudVars, procVars>>

\* DELETE /career_goals/:id, lines 772-775: the second query is rejected (the
\* connection is lost, the statement times out) and the handler answers 500
DeleteGoalRejected(c) ==
    /\ goalReq[c].op = "deleteGoal"
    /\ goalReq[c].pc = "goal"
    /\ goalReq' = [goalReq EXCEPT ![c].pc = "done",
                                  ![c].res = JsonError(500, "Error deleting career goal.")]
    /\ UNCHANGED <<now, career_goals, career_goals_seq, career_stage_history,
                   career_stage_history_seq>>
    /\ UNCHANGED <<authVars, profVars, crudVars, procVars>>

\* GET /career_goals/:id/history, lines 779-790
GetHistory(c, id) ==
    /\ Free(goalReq[c])
    /\ \E rows \in SelectHistory(career_stage_history, id) :
          goalReq' = [goalReq EXCEPT ![c] = Answered("getHistory", id, 0, Json(200, rows))]
    /\ UNCHANGED <<now, career_goals, career_goals_seq, career_stage_history,
                   career_stage_history_seq>>
    /\ UNCHANGED <<authVars, profVars, crudVars, procVars>>

\* POST /career_goals/:id/history, lines 792-806
AddHistory(c, id, body) ==
    /\ Free(goalReq[c])
    /\ career_stage_history_seq < MaxHistorySeq
    /\ LET updated_date == toISOString(now)
           result == InsertHistory(career_stage_history, career_stage_history_seq,
                                   career_goals, id, body.stage, Param(body.description),
                                   updated_date)
       IN  /\ career_stage_history' = result.history
           /\ career_stage_history_seq' = result.seq
           /\ goalReq' = [goalReq EXCEPT ![c] =
                 Answered("addHistory", id, 0,
                          IF result.ok THEN Json(200, result.rows[1])
                          ELSE JsonError(500, "Error adding stage history."))]
    /\ UNCHANGED <<now, career_goals, career_goals_seq>>
    /\ UNCHANGED <<authVars, profVars, crudVars, procVars>>

\* DELETE /career_goals/:goalId/history/:historyId, lines 808-819
DeleteHistory(c, goalId, historyId) ==
    /\ Free(goalReq[c])
    /\ LET result == DeleteHistoryEntry(career_stage_history, historyId, goalId) IN
       /\ career_stage_history' = result.history
       /\ goalReq' = [goalReq EXCEPT ![c] =
             Answered("deleteHistory", goalId, 0, Json(200, [deleted |-> result.rowCount]))]
    /\ UNCHANGED <<now, career_goals, career_goals_seq, career_stage_history_seq>>
    /\ UNCHANGED <<authVars, profVars, crudVars, procVars>>

(***************************************************************************)
(* Table profiles: user_email TEXT UNIQUE REFERENCES users(email).         *)
(***************************************************************************)
\* the columns both statements of POST /profile write, from the body and
\* the five JSON texts (lines 1181-1186 and 1202-1206)
ProfileColumns(body, json) ==
    [full_name |-> Param(body.fullName),
     designation |-> Param(body.designation),
     department |-> Param(body.department),
     institution |-> Param(body.institution),
     office_address |-> Param(body.officeAddress),
     official_email |-> Param(body.officialEmail),
     alternate_email |-> Param(body.alternateEmail),
     phone |-> Param(body.phone),
     website |-> Param(body.website),
     degrees |-> json.degrees,
     employment |-> json.employment,
     research_keywords |-> Param(body.researchKeywords),
     research_description |-> Param(body.researchDescription),
     scholar_link |-> Param(body.scholarLink),
     courses |-> json.courses,
     grants |-> json.grants,
     professional_activities |-> Param(body.professionalActivities),
     awards |-> json.awards,
     skills |-> Param(body.skills),
     outreach_service |-> Param(body.outreachService)]

\* SELECT id FROM profiles WHERE user_email = $1
SelectProfileIds(tbl, email) == {r.id : r \in {q \in tbl : q.user_email = email}}

\* UpdateProfile stamping created_date too
UpdateProfile_Restamps(tbl, email, columns, modified_date) ==
    {IF r.user_email = email
     THEN [id |-> r.id, user_email |-> r.user_email, created_date |-> modified_date,
           modified_date |-> modified_date] @@ columns
     ELSE r : r \in tbl}

\* UPDATE profiles SET <20 columns>, modified_date = $21 WHERE user_email = $22
UpdateProfile(tbl, email, columns, modified_date) ==
    {IF r.user_email = email
     THEN [id |-> r.id, user_email |-> r.user_email, created_date |-> r.created_date,
           modified_date |-> modified_date] @@ columns
     ELSE r : r \in tbl}

\* InsertProfile on a table whose user_email is not UNIQUE
InsertProfile_NotUnique(tbl, seq, usersTbl, email, columns, created_date, modified_date) ==
    LET id == seq + 1
        row == [id |-> id, user_email |-> email, created_date |-> created_date,
                modified_date |-> modified_date] @@ columns
    IN  IF ~RefersToUser(usersTbl, email)
        THEN [ok |-> FALSE, code |-> "23503", profiles |-> tbl, seq |-> id, rows |-> <<>>]
        ELSE [ok |-> TRUE, code |-> "", profiles |-> tbl \cup {row}, seq |-> id,
              rows |-> <<[id |-> id]>>]

\* InsertProfile with ON CONFLICT (user_email) DO UPDATE: the last writer's
\* values replace the row
InsertProfile_LastWriter(tbl, seq, usersTbl, email, columns, created_date, modified_date) ==
    LET id == seq + 1
        row == [id |-> id, user_email |-> email, created_date |-> created_date,
                modified_date |-> modified_date] @@ columns
    IN  IF ~RefersToUser(usersTbl, email)
        THEN [ok |-> FALSE, code |-> "23503", profiles |-> tbl, seq |-> id, rows |-> <<>>]
        ELSE [ok |-> TRUE, code |-> "",
              profiles |-> {r \in tbl : r.user_email # email} \cup {row}, seq |-> id,
              rows |-> <<[id |-> id]>>]

\* INSERT INTO profiles (user_email, <20 columns>, created_date, modified_date)
\* VALUES ($1..$23) RETURNING id
InsertProfile(tbl, seq, usersTbl, email, columns, created_date, modified_date) ==
    LET id == seq + 1
        row == [id |-> id, user_email |-> email, created_date |-> created_date,
                modified_date |-> modified_date] @@ columns
    IN  IF \E r \in tbl : r.user_email = email
        THEN [ok |-> FALSE, code |-> "23505", profiles |-> tbl, seq |-> id, rows |-> <<>>]
        ELSE IF ~RefersToUser(usersTbl, email)
        THEN [ok |-> FALSE, code |-> "23503", profiles |-> tbl, seq |-> id, rows |-> <<>>]
        ELSE [ok |-> TRUE, code |-> "", profiles |-> tbl \cup {row}, seq |-> id,
              rows |-> <<[id |-> id]>>]

\* DELETE FROM profiles WHERE user_email = $1
DeleteProfileRows(tbl, email) ==
    [profiles |-> {r \in tbl : r.user_email # email},
     rowCount |-> Cardinality({r \in tbl : r.user_email = email})]

\* SELECT * FROM profiles WHERE user_email = $1
SelectProfiles(tbl, email) == {r \in tbl : r.user_email = email}

(***************************************************************************)
(* The /profile routes.                                                    *)
(***************************************************************************)
\* ListJson without the default: JSON.stringify(x), undefined going as NULL
ListJson_NoDefault(v) == IF v.t = "undefined" THEN Null ELSE Str(stringify(v))

\* lines 1156-1160: JSON.stringify(x || [])
ListJson(v) == Str(stringify(OrElse(v, Arr(<<>>))))

ProfileJson(body) ==
    [degrees |-> ListJson(body.degrees),
     employment |-> ListJson(body.employment),
     courses |-> ListJson(body.courses),
     grants |-> ListJson(body.grants),
     awards |-> ListJson(body.awards)]

\* lines 1122-1130: row.x ? JSON.parse(row.x) : []
ReadList(column) ==
    IF Falsy(column) THEN [ok |-> TRUE, v |-> Arr(<<>>)] ELSE parse(column.s)

\* lines 1108-1133: the camelCase view of a row; a SyntaxError of JSON.parse
\* is caught at line 1136
ProfileView(row) ==
    LET lists == [f \in {"degrees", "employment", "courses", "grants", "awards"} |->
                     ReadList(row[f])]
    IN  IF \E f \in DOMAIN lists : ~lists[f].ok
        THEN JsonError(500, "Error fetching profile.")
        ELSE Json(200,
                  [userEmail |-> row.user_email,
                   fullName |-> row.full_name,
                   designation |-> row.designation,
                   department |-> row.department,
                   institution |-> row.institution,
                   officeAddress |-> row.office_address,
                   officialEmail |-> row.official_email,
                   alternateEmail |-> row.alternate_email,
                   phone |-> row.phone,
                   website |-> row.website,
                   degrees |-> lists["degrees"].v,
                   employment |-> lists["employment"].v,
                   researchKeywords |-> row.research_keywords,
                   researchDescription |-> row.research_description,
                   scholarLink |-> row.scholar_link,
                   courses |-> lists["courses"].v,
                   grants |-> lists["grants"].v,
                   professionalActivities |-> row.professional_activities,
                   awards |-> lists["awards"].v,
                   skills |-> row.skills,
                   outreachService |-> row.outreach_service])

\* GetProfileAnswer taking a missing profile for an error
GetProfileAnswer_NotFound(tbl, email) ==
    LET rows == SelectProfiles(tbl, email) IN
    IF rows = {} THEN {JsonError(404, "Profile not found.")}
    ELSE {ProfileView(row) : row \in rows}

\* GET /profile/:email, lines 1097-1140: the answer over the table
GetProfileAnswer(tbl, email) ==
    LET rows == SelectProfiles(tbl, email) IN
    IF rows = {} THEN {Json(200, Null)} ELSE {ProfileView(row) : row \in rows}

NoProfileBody ==
    [userEmail |-> Undefined, fullName |-> Undefined, designation |-> Undefined,
     department |-> Undefined, institution |-> Undefined, officeAddress |-> Undefined,
     officialEmail |-> Undefined, alternateEmail |-> Undefined, phone |-> Undefined,
     website |-> Undefined, degrees |-> Undefined, employment |-> Undefined,
     researchKeywords |-> Undefined, researchDescription |-> Undefined,
     scholarLink |-> Undefined, courses |-> Undefined, grants |-> Undefined,
     professionalActivities |-> Undefined, awards |-> Undefined, skills |-> Undefined,
     outreachService |-> Undefined]

Phd == Obj(<< <<<<"d">>, Str(<<"P", "h", "D">>)>>, <<<<"y">>, Num(2019)>> >>)

Msc == Obj(<< <<<<"d">>, Str(<<"M", "\"", "S", "\\">>)>>, <<<<"n">>, Null>> >>)

Post == Obj(<< <<<<"r">>, Arr(<<Str(<<"a">>), Num(7)>>)>>, <<<<"o">>, Obj(<<>>)>> >>)

ProfileBodies ==
    {NoProfileBody,
     [NoProfileBody EXCEPT !.userEmail = Str(<<"a">>), !.grants = Null],
     [NoProfileBody EXCEPT !.userEmail = Str(<<"a">>), !.fullName = Str(<<"N">>),
         !.designation = Str(<<"D">>), !.department = Str(<<"E">>),
         !.institution = Str(<<"I">>), !.officeAddress = Str(<<"O">>),
         !.officialEmail = Str(<<"a">>), !.alternateEmail = Str(<<"b">>),
         !.phone = Str(<<"1">>), !.website = Str(<<"w">>),
         !.degrees = Arr(<<Phd, Msc>>), !.employment = Arr(<<Post>>),
         !.researchKeywords = Str(<<"k", ",", " ", "l">>),
         !.researchDescription = Str(<<"r">>), !.scholarLink = Str(<<"s">>),
         !.courses = Arr(<<>>), !.grants = Arr(<<Obj(<<>>)>>),
         !.professionalActivities = Str(<<"p">>), !.awards = Arr(<<Msc>>),
         !.skills = Str(<<"x", ",", "y">>), !.outreachService = Str(<<"u">>)],
     [NoProfileBody EXCEPT !.userEmail = Str(<<"b">>), !.fullName = Str(<<"M">>),
         !.degrees = Arr(<<Msc>>), !.awards = Null]}

ProfileEmails == {Str(<<"a">>), Str(<<"b">>)}

IdleProfileRequest == IdleRequest

\* a /profile request as it arrives
ProfileRequest(op, email) ==
    [op |-> op, pc |-> "done", email |-> email, body |-> NoProfileBody,
     modifiedDate |-> Undefined, createdDate |-> Undefined, res |-> NoResponse]

\* POST /profile, lines 1143-1160: the synchronous head of the handler
PostProfileReceive(c, body) ==
    /\ Free(profReq[c])
    /\ profReq' = [profReq EXCEPT ![c] =
          IF Falsy(body.userEmail)
          THEN [ProfileRequest("postProfile", body.userEmail) EXCEPT
                   !.body = body, !.res = JsonError(400, "User email is required.")]
          ELSE [ProfileRequest("postProfile", body.userEmail) EXCEPT
                   !.pc = "check", !.body = body, !.modifiedDate = toISOString(now)]]
    /\ UNCHANGED <<profiles, profiles_seq>>
    /\ UNCHANGED <<authVars, goalVars, crudVars, procVars>>

\* lines 1164-1169 and 1192: the SELECT answers and the handler takes its
\* branch; the insert branch reads the clock for createdDate
PostProfileCheck(c) ==
    /\ profReq[c].op = "postProfile"
    /\ profReq[c].pc = "check"
    /\ profReq' = [profReq EXCEPT ![c] =
          IF SelectProfileIds(profiles, profReq[c].email) # {}
          THEN [@ EXCEPT !.pc = "update"]
          ELSE [@ EXCEPT !.pc = "insert", !.createdDate = toISOString(now)]]
    /\ UNCHANGED <<profiles, profiles_seq>>
    /\ UNCHANGED <<authVars, goalVars, crudVars, procVars>>

\* lines 1171-1189: the UPDATE runs and the handler answers
PostProfileUpdate(c) ==
    /\ profReq[c].op = "postProfile"
    /\ profReq[c].pc = "update"
    /\ profiles' = UpdateProfile(profiles, profReq[c].email,
                                 ProfileColumns(profReq[c].body, ProfileJson(profReq[c].body)),
                                 profReq[c].modifiedDate)
    /\ profReq' = [profReq EXCEPT ![c].pc = "done",
                      ![c].res = Json(200, [message |-> "Profile updated successfully"])]
    /\ UNCHANGED profiles_seq
    /\ UNCHANGED <<authVars, goalVars, crudVars, procVars>>

\* lines 1193-1209 and 1211-1214: the INSERT runs and the handler answers
PostProfileInsert(c) ==
    /\ profReq[c].op = "postProfile"
    /\ profReq[c].pc = "insert"
    /\ profiles_seq < MaxProfilesSeq
    /\ LET result == InsertProfile(profiles, profiles_seq, users, profReq[c].email,
                         ProfileColumns(profReq[c].body, ProfileJson(profReq[c].body)),
                         profReq[c].createdDate, profReq[c].modifiedDate)
       IN  /\ profiles' = result.profiles
           /\ profiles_seq' = result.seq
           /\ profReq' = [profReq EXCEPT ![c].pc = "done",
                 ![c].res = IF result.ok
                            THEN Json(200, [message |-> "Profile created successfully",
                                            id |-> result.rows[1].id])
                            ELSE JsonError(500, "Error saving profile.")]
    /\ UNCHANGED <<authVars, goalVars, crudVars, procVars>>

\* GET /profile/:email, lines 1097-1140
GetProfile(c, email) ==
    /\ Free(profReq[c])
    /\ \E answer \in GetProfileAnswer(profiles, email) :
          profReq' = [profReq EXCEPT ![c] =
              [ProfileRequest("getProfile", email) EXCEPT !.res = answer]]
    /\ UNCHANGED <<profiles, profiles_seq>>
    /\ UNCHANGED <<authVars, goalVars, crudVars, procVars>>

\* DELETE /profile/:email, lines 1217-1228
DeleteProfile(c, email) ==
    /\ Free(profReq[c])
    /\ LET result == DeleteProfileRows(profiles, email) IN
       /\ profiles' = result.profiles
       /\ profReq' = [profReq EXCEPT ![c] =
             [ProfileRequest("deleteProfile", email) EXCEPT
                 !.res = Json(200, [deleted |-> result.rowCount,
                                    message |-> "Profile deleted successfully"])]]
    /\ UNCHANGED profiles_seq
    /\ UNCHANGED <<authVars, goalVars, crudVars, procVars>>

(***************************************************************************)
(* The routes that run one SQL statement: projects, ideas, notes,          *)
(* future_work, deadlines, calendar_events, and PUT /career_goals/:id.     *)
(* Their handlers await one query and answer, so each is one step; its     *)
(* request and response are kept in crudReq.  A query of these routes is   *)
(* rejected only for a constraint of the table.                            *)
(***************************************************************************)
\* the parameters of a query, each at the place of its column
Assign(columns, params) ==
    [c \in {columns[i] : i \in DOMAIN columns} |->
        Param(params[CHOOSE i \in DOMAIN columns : columns[i] = c])]

\* INSERT INTO t (...) VALUES (...) RETURNING *: id is the next value of the
\* sequence, a column that is not named takes its DEFAULT, and the row is
\* refused when a foreign key is not `satisfied`
InsertRow(tbl, seq, defaults, values, satisfied) ==
    LET id == seq + 1
        row == [id |-> id] @@ values @@ defaults
    IN  IF satisfied
        THEN [ok |-> TRUE, tbl |-> tbl \cup {row}, seq |-> id, rows |-> <<row>>]
        ELSE [ok |-> FALSE, tbl |-> tbl, seq |-> id, rows |-> <<>>]

\* UpdateWhereId keeping the value of a column whose parameter is NULL
UpdateWhereId_Coalesce(tbl, id, set) ==
    LET hit == {r \in tbl : r.id = id}
        new(r) == [c \in DOMAIN r |->
                     IF c \in DOMAIN set /\ set[c] # Null THEN set[c] ELSE r[c]]
    IN  [tbl |-> (tbl \ hit) \cup {new(r) : r \in hit},
         rowCount |-> Cardinality(hit),
         rows |-> IF hit = {} THEN <<>> ELSE <<new(CHOOSE r \in hit : TRUE)>>]

\* UpdateWhereId clearing the columns that the statement does not set
UpdateWhereId_Replace(tbl, id, set) ==
    LET hit == {r \in tbl : r.id = id}
        new(r) == [c \in DOMAIN r |->
                     IF c \in DOMAIN set THEN set[c] ELSE IF c = "id" THEN r.id ELSE Null]
    IN  [tbl |-> (tbl \ hit) \cup {new(r) : r \in hit},
         rowCount |-> Cardinality(hit),
         rows |-> IF hit = {} THEN <<>> ELSE <<new(CHOOSE r \in hit : TRUE)>>]

\* UPDATE t SET ... WHERE id = $n [RETURNING *]
UpdateWhereId(tbl, id, set) ==
    LET hit == {r \in tbl : r.id = id} IN
    [tbl |-> (tbl \ hit) \cup {set @@ r : r \in hit},
     rowCount |-> Cardinality(hit),
     rows |-> IF hit = {} THEN <<>> ELSE <<set @@ (CHOOSE r \in hit : TRUE)>>]

\* DELETE FROM t WHERE id = $1
DeleteWhereId(tbl, id) ==
    [tbl |-> {r \in tbl : r.id # id},
     rowCount |-> Cardinality({r \in tbl : r.id = id})]

\* the order of the characters of the dates and times of the bodies
Collation == <<"0", "1", "2", "3", "4", "5", "6", "7", "8", "9">>

CharRank(c) == CHOOSE i \in DOMAIN Collation : Collation[i] = c

\* text a sorts before text b, or is b
RECURSIVE TextLeq(_, _)
TextLeq(a, b) ==
    IF a = <<>> THEN TRUE
    ELSE IF b = <<>> THEN FALSE
    ELSE IF Head(a) = Head(b) THEN TextLeq(Tail(a), Tail(b))
    ELSE CharRank(Head(a)) < CharRank(Head(b))

\* ORDER BY column ASC on a TEXT column: x may stand before y (NULLs last)
AscLeq(x, y) == y = Null \/ (x # Null /\ TextLeq(x.s, y.s))

\* the text of a created_date: an ISO timestamp of new Date() begins with
\* the year and sorts by its instant, after the dates of the bodies
DateText(v) == IF "instant" \in DOMAIN v THEN <<"2", Collation[v.instant + 1]>> ELSE v.s

\* ORDER BY created_date DESC on a TEXT column: x may stand before y (NULLs
\* first)
DescLeq(x, y) == x = Null \/ (y # Null /\ TextLeq(DateText(y), DateText(x)))

\* SELECT * FROM t WHERE user_email = $1 ORDER BY created_date DESC: the
\* orders in which the rows may be answered
SelectNewestFirst(tbl, email) ==
    LET S == {r \in tbl : r.user_email = email}
    IN  {q \in [1..Cardinality(S) -> S] :
            \A i, j \in 1..Cardinality(S) :
                i < j => (q[i] # q[j] /\ DescLeq(q[i].created_date, q[j].created_date))}

\* the request the one-statement routes answered last
CrudRequest(op, params, body, res) ==
    [op |-> op, pc |-> "done", params |-> params, body |-> body, res |-> res]

RowIds == 1..MaxRows

Owners == {Str(<<"a">>), Str(<<"b">>)}

(***************************************************************************)
(* Table projects and the /projects routes.                                *)
(***************************************************************************)
\* the description columns, in the order of the SET clause of lines 519-524
DescriptionColumns ==
    <<
      "project_title", "notes", "colleague_name", "colleague_phone",
      "colleague_email", "colleague_address1", "colleague_address2",
      "colleague_address3", "your_name", "your_phone", "your_email",
      "your_address1", "your_address2", "your_address3", "objectives",
      "timeline", "primary_audience", "secondary_audience", "call_action",
      "competition", "graphics", "photography", "multimedia", "other_info",
      "client_name", "client_comments", "approval_date", "approval_signature"
    >>

\* the fields of the description, as the handlers name them
DescriptionFields ==
    <<
      "projectTitle", "notes", "colleagueName", "colleaguePhone",
      "colleagueEmail", "colleagueAddress1", "colleagueAddress2",
      "colleagueAddress3", "yourName", "yourPhone", "yourEmail",
      "yourAddress1", "yourAddress2", "yourAddress3", "objectives",
      "timeline", "primaryAudience", "secondaryAudience", "callAction",
      "competition", "graphics", "photography", "multimedia", "otherInfo",
      "clientName", "clientComments", "approvalDate", "approvalSignature"
    >>

\* CREATE TABLE projects, lines 50-88: the columns
ProjectsColumns ==
    {"name", "owner_email", "colleagues", "progress",
     "idea", "career_goals", "future_work", "deadlines"}
       \cup {DescriptionColumns[i] : i \in DOMAIN DescriptionColumns}

\* ... and their DEFAULTs
ProjectsDefaults ==
    [c \in ProjectsColumns |->
        CASE c = "colleagues" -> Str(<<"[", "]">>)
          [] c = "progress" -> Num(0)
          [] OTHER -> Null]

\* the parameters of the UPDATE of the description, lines 527-534
DescriptionParams(body) ==
    <<
      body.projectTitle, body.notes, body.colleagueName, body.colleaguePhone,
      body.colleagueEmail, body.colleagueAddress1, body.colleagueAddress2,
      body.colleagueAddress3, body.yourName, body.yourPhone, body.yourEmail,
      body.yourAddress1, body.yourAddress2, body.yourAddress3,
      body.objectives, body.timeline, body.primaryAudience,
      body.secondaryAudience, body.callAction, body.competition,
      body.graphics, body.photography, body.multimedia, body.otherInfo,
      body.clientName, body.clientComments, body.approvalDate,
      body.approvalSignature
    >>

\* the row in camelCase, lines 465-494 and 541-570
DescriptionView(row) ==
    [
     projectTitle |-> row.project_title, notes |-> row.notes,
     colleagueName |-> row.colleague_name,
     colleaguePhone |-> row.colleague_phone,
     colleagueEmail |-> row.colleague_email,
     colleagueAddress1 |-> row.colleague_address1,
     colleagueAddress2 |-> row.colleague_address2,
     colleagueAddress3 |-> row.colleague_address3,
     yourName |-> row.your_name, yourPhone |-> row.your_phone,
     yourEmail |-> row.your_email, yourAddress1 |-> row.your_address1,
     yourAddress2 |-> row.your_address2, yourAddress3 |-> row.your_address3,
     objectives |-> row.objectives, timeline |-> row.timeline,
     primaryAudience |-> row.primary_audience,
     secondaryAudience |-> row.secondary_audience,
     callAction |-> row.call_action, competition |-> row.competition,
     graphics |-> row.graphics, photography |-> row.photography,
     multimedia |-> row.multimedia, otherInfo |-> row.other_info,
     clientName |-> row.client_name, clientComments |-> row.client_comments,
     approvalDate |-> row.approval_date,
     approvalSignature |-> row.approval_signature
    ]

\* a description with every field, each of its own text, and one with two
DescriptionLetters ==
    <<"a", "b", "c", "d", "e", "f", "g", "h", "i", "j", "k", "l", "m", "n",
      "o", "p", "q", "r", "s", "t", "u", "v", "w", "x", "y", "z", "0", "1">>

DescriptionBodies ==
    {[f \in {DescriptionFields[i] : i \in DOMAIN DescriptionFields} |->
         Str(<<DescriptionLetters[CHOOSE i \in DOMAIN DescriptionFields :
                                     DescriptionFields[i] = f]>>)],
     [f \in {DescriptionFields[i] : i \in DOMAIN DescriptionFields} |->
         IF f \in {"projectTitle", "timeline"} THEN Str(<<"T">>) ELSE Undefined]}

ProjectBodies ==
    {[name |-> Undefined, owner_email |-> Str(<<"a">>), colleagues |-> Undefined,
      progress |-> Undefined, created_date |-> Undefined],
     [name |-> Str(<<"P">>), owner_email |-> Str(<<"a">>), colleagues |-> Undefined,
      progress |-> Undefined, created_date |-> Undefined],
     [name |-> Str(<<"Q">>), owner_email |-> Str(<<"b">>), colleagues |-> Str(<<"[", "]">>),
      progress |-> Num(40), created_date |-> Str(<<"1">>)]}

ProjectUpdates ==
    {[name |-> Str(<<"R">>), colleagues |-> Str(<<"c">>), progress |-> Num(70)],
     [name |-> Str(<<"R">>), colleagues |-> Undefined, progress |-> Undefined]}

\* POST /projects, lines 369-371
ProjectValidate(body) ==
    IF Falsy(body.name) \/ Falsy(body.owner_email)
    THEN JsonError(400, "Project name and owner email are required.")
    ELSE NoResponse

\* POST /projects, lines 366-383
CreateProject(body) ==
    /\ ProjectValidate(body) = NoResponse => projects_seq < MaxRows
    /\ IF ProjectValidate(body) # NoResponse
       THEN /\ crudReq' = CrudRequest("createProject", [id |-> 0], body, ProjectValidate(body))
            /\ UNCHANGED <<projects, projects_seq>>
       ELSE LET result == InsertRow(projects, projects_seq, ProjectsDefaults,
                             Assign(<<"name", "owner_email", "colleagues", "progress">>,
                                    <<body.name, body.owner_email,
                                      OrElse(body.colleagues, Str(<<"[", "]">>)),
                                      OrElse(body.progress, Num(0))>>),
                             TRUE)
            IN  /\ projects' = result.tbl
                /\ projects_seq' = result.seq
                /\ crudReq' = CrudRequest("createProject", [id |-> result.seq], body,
                                          Json(200, result.rows[1]))
    /\ UNCHANGED <<ideaVars, noteVars, futureVars, deadlineVars, eventVars>>
    /\ UNCHANGED <<authVars, goalVars, profVars, procVars>>

\* GET /projects/:email, lines 385-396 (no ORDER BY: the rows in any order)
GetProjects(email) ==
    /\ LET S == {r \in projects : r.owner_email = email} IN
       \E rows \in {q \in [1..Cardinality(S) -> S] :
                       \A i, j \in 1..Cardinality(S) : i < j => q[i] # q[j]} :
          crudReq' = CrudRequest("getProjects", [email |-> email], Null, Json(200, rows))
    /\ UNCHANGED <<projectVars, ideaVars, noteVars, futureVars, deadlineVars, eventVars>>
    /\ UNCHANGED <<authVars, goalVars, profVars, procVars>>

\* PUT /projects/:id, lines 398-410
UpdateProject(id, body) ==
    /\ LET result == UpdateWhereId(projects, id,
                        Assign(<<"name", "colleagues", "progress">>,
                               <<body.name, body.colleagues,
                                 IF body.progress # Undefined THEN body.progress ELSE Num(0)>>))
       IN  /\ projects' = result.tbl
           /\ crudReq' = CrudRequest("updateProject", [id |-> id], body,
                                     Json(200, [updated |-> result.rowCount]))
    /\ UNCHANGED <<projects_seq, ideaVars, noteVars, futureVars, deadlineVars, eventVars>>
    /\ UNCHANGED <<authVars, goalVars, profVars, procVars>>

\* DELETE /projects/:id, lines 412-420 (no row of colleagues refers to a
\* project: no route inserts into colleagues)
DeleteProject(id) ==
    /\ LET result == DeleteWhereId(projects, id) IN
       /\ projects' = result.tbl
       /\ crudReq' = CrudRequest("deleteProject", [id |-> id], Null,
                                 Json(200, [deleted |-> result.rowCount]))
    /\ UNCHANGED <<projects_seq, ideaVars, noteVars, futureVars, deadlineVars, eventVars>>
    /\ UNCHANGED <<authVars, goalVars, profVars, procVars>>

\* {}
EmptyObject == [f \in {} |-> Null]

\* GET /projects/:id/description, lines 451-501
GetDescription(id) ==
    /\ LET rows == {r \in projects : r.id = id} IN
       crudReq' = CrudRequest("getDescription", [id |-> id], Null,
                     IF rows = {} THEN Json(200, EmptyObject)
                     ELSE Json(200, DescriptionView(CHOOSE r \in rows : TRUE)))
    /\ UNCHANGED <<projectVars, ideaVars, noteVars, futureVars, deadlineVars, eventVars>>
    /\ UNCHANGED <<authVars, goalVars, profVars, procVars>>

\* PUT /projects/:id/description, lines 503-577: the UPDATE runs; with no row
\* returned, row is undefined, row.project_title throws a TypeError and the
\* catch answers 500
UpdateDescription(id, body) ==
    /\ LET result == UpdateWhereId(projects, id,
                                   Assign(DescriptionColumns, DescriptionParams(body)))
       IN  /\ projects' = result.tbl
           /\ crudReq' = CrudRequest("updateDescription", [id |-> id], body,
                 IF result.rows = <<>>
                 THEN Json(500, [error |-> "Error updating description.",
                                 details |-> "TypeError"])
                 ELSE Json(200, [updated |-> result.rowCount,
                                 data |-> DescriptionView(result.rows[1])]))
    /\ UNCHANGED <<projects_seq, ideaVars, noteVars, futureVars, deadlineVars, eventVars>>
    /\ UNCHANGED <<authVars, goalVars, profVars, procVars>>

(***************************************************************************)
(* Table ideas and the /ideas routes.                                      *)
(***************************************************************************)
\* CREATE TABLE ideas, lines 111-118: the DEFAULTs of the columns
IdeaDefaults ==
    [user_email |-> Null, title |-> Null, content |-> Null,
     category |-> Str(<<"g", "e", "n", "e", "r", "a", "l">>),
     created_date |-> Null]

IdeaBodies ==
    {[user_email |-> Str(<<"a">>), title |-> Str(<<"I">>),
      content |-> Undefined, category |-> Undefined, created_date |-> Undefined],
     [user_email |-> Str(<<"b">>), title |-> Str(<<"J">>),
      content |-> Str(<<"c">>), category |-> Str(<<"k">>),
      created_date |-> Str(<<"1">>)]}

IdeaUpdates ==
    {[title |-> Str(<<"K">>), content |-> Str(<<"d">>),
      category |-> Str(<<"l">>)],
     [title |-> Str(<<"K">>), content |-> Undefined, category |-> Undefined]}

\* GET /ideas/:email, lines 580-591
GetIdeas(email) ==
    /\ \E rows \in SelectNewestFirst(ideas, email) :
          crudReq' = CrudRequest("getIdeas", [email |-> email], Null, Json(200, rows))
    /\ UNCHANGED <<projectVars, ideaVars, noteVars, futureVars, deadlineVars, eventVars>>
    /\ UNCHANGED <<authVars, goalVars, profVars, procVars>>

\* POST /ideas, lines 593-606
CreateIdea(body) ==
    /\ ideas_seq < MaxRows
    /\ LET date == OrElse(body.created_date, toISOString(now))
           result == InsertRow(ideas, ideas_seq, IdeaDefaults,
                        Assign(<<"user_email", "title", "content", "category", "created_date">>,
                               <<body.user_email, body.title, body.content,
                                 OrElse(body.category, Str(<<"g", "e", "n", "e", "r", "a", "l">>)), date>>),
                        RefersToUser(users, Param(body.user_email)))
       IN  /\ ideas' = result.tbl
           /\ ideas_seq' = result.seq
           /\ crudReq' = CrudRequest("createIdea", [id |-> result.seq], body,
                             IF result.ok THEN Json(200, result.rows[1])
                             ELSE JsonError(500, "Error creating idea."))
    /\ UNCHANGED <<projectVars, noteVars, futureVars, deadlineVars, eventVars>>
    /\ UNCHANGED <<authVars, goalVars, profVars, procVars>>

\* PUT /ideas/:id, lines 608-620
UpdateIdea(id, body) ==
    /\ LET result == UpdateWhereId(ideas, id,
                        Assign(<<"title", "content", "category">>,
                               <<body.title, body.content, body.category>>))
       IN  /\ ideas' = result.tbl
           /\ crudReq' = CrudRequest("updateIdea", [id |-> id], body,
                                     Json(200, [updated |-> result.rowCount]))
    /\ UNCHANGED <<ideas_seq, projectVars, noteVars, futureVars, deadlineVars, eventVars>>
    /\ UNCHANGED <<authVars, goalVars, profVars, procVars>>

\* DELETE /ideas/:id, lines 622-630
DeleteIdea(id) ==
    /\ LET result == DeleteWhereId(ideas, id) IN
       /\ ideas' = result.tbl
       /\ crudReq' = CrudRequest("deleteIdea", [id |-> id], Null,
                                 Json(200, [deleted |-> result.rowCount]))
    /\ UNCHANGED <<ideas_seq, projectVars, noteVars, futureVars, deadlineVars, eventVars>>
    /\ UNCHANGED <<authVars, goalVars, profVars, procVars>>

(***************************************************************************)
(* Table notes and the /notes routes.                                      *)
(***************************************************************************)
\* CREATE TABLE notes, lines 122-128: the DEFAULTs of the columns
NoteDefaults ==
    [user_email |-> Null, title |-> Null, content |-> Null,
     created_date |-> Null]

NoteBodies ==
    {[user_email |-> Str(<<"a">>), title |-> Str(<<"N">>),
      content |-> Undefined, created_date |-> Undefined],
     [user_email |-> Str(<<"b">>), title |-> Str(<<"O">>),
      content |-> Str(<<"c">>), created_date |-> Str(<<"1">>)]}

NoteUpdates ==
    {[title |-> Str(<<"K">>), content |-> Str(<<"d">>)],
     [title |-> Undefined, content |-> Undefined]}

\* GET /notes/:email, lines 633-644
GetNotes(email) ==
    /\ \E rows \in SelectNewestFirst(notes, email) :
          crudReq' = CrudRequest("getNotes", [email |-> email], Null, Json(200, rows))
    /\ UNCHANGED <<projectVars, ideaVars, noteVars, futureVars, deadlineVars, eventVars>>
    /\ UNCHANGED <<authVars, goalVars, profVars, procVars>>

\* POST /notes, lines 646-659
CreateNote(body) ==
    /\ notes_seq < MaxRows
    /\ LET date == OrElse(body.created_date, toISOString(now))
           result == InsertRow(notes, notes_seq, NoteDefaults,
                        Assign(<<"user_email", "title", "content", "created_date">>,
                               <<body.user_email, body.title, body.content, date>>),
                        RefersToUser(users, Param(body.user_email)))
       IN  /\ notes' = result.tbl
           /\ notes_seq' = result.seq
           /\ crudReq' = CrudRequest("createNote", [id |-> result.seq], body,
                             IF result.ok THEN Json(200, result.rows[1])
                             ELSE JsonError(500, "Error creating note."))
    /\ UNCHANGED <<projectVars, ideaVars, futureVars, deadlineVars, eventVars>>
    /\ UNCHANGED <<authVars, goalVars, profVars, procVars>>

\* PUT /notes/:id, lines 661-673
UpdateNote(id, body) ==
    /\ LET result == UpdateWhereId(notes, id,
                        Assign(<<"title", "content">>,
                               <<body.title, body.content>>))
       IN  /\ notes' = result.tbl
           /\ crudReq' = CrudRequest("updateNote", [id |-> id], body,
                                     Json(200, [updated |-> result.rowCount]))
    /\ UNCHANGED <<notes_seq, projectVars, ideaVars, futureVars, deadlineVars, eventVars>>
    /\ UNCHANGED <<authVars, goalVars, profVars, procVars>>

\* DELETE /notes/:id, lines 675-683
DeleteNote(id) ==
    /\ LET result == DeleteWhereId(notes, id) IN
       /\ notes' = result.tbl
       /\ crudReq' = CrudRequest("deleteNote", [id |-> id], Null,
                                 Json(200, [deleted |-> result.rowCount]))
    /\ UNCHANGED <<notes_seq, projectVars, ideaVars, futureVars, deadlineVars, eventVars>>
    /\ UNCHANGED <<authVars, goalVars, profVars, procVars>>

(***************************************************************************)
(* Table future_work and the /future_work routes.                          *)
(***************************************************************************)
\* CREATE TABLE future_work, lines 160-168: the DEFAULTs of the columns
FutureWorkDefaults ==
    [user_email |-> Null, title |-> Null, description |-> Null,
     priority |-> Str(<<"m", "e", "d", "i", "u", "m">>), timeline |-> Null,
     created_date |-> Null]

FutureWorkBodies ==
    {[user_email |-> Str(<<"a">>), title |-> Str(<<"F">>),
      description |-> Undefined, priority |-> Undefined,
      timeline |-> Undefined, created_date |-> Undefined],
     [user_email |-> Str(<<"b">>), title |-> Str(<<"G">>),
      description |-> Str(<<"d">>), priority |-> Str(<<"h">>),
      timeline |-> Str(<<"t">>), created_date |-> Str(<<"1">>)]}

FutureWorkUpdates ==
    {[title |-> Str(<<"K">>), description |-> Str(<<"e">>),
      priority |-> Str(<<"l">>), timeline |-> Str(<<"u">>)],
     [title |-> Str(<<"K">>), description |-> Undefined,
      priority |-> Undefined, timeline |-> Undefined]}

\* GET /future_work/:email and its alias GET /future/:email, lines 822-846
GetFutureWork(email) ==
    /\ \E rows \in SelectNewestFirst(future_work, email) :
          crudReq' = CrudRequest("getFutureWork", [email |-> email], Null, Json(200, rows))
    /\ UNCHANGED <<projectVars, ideaVars, noteVars, futureVars, deadlineVars, eventVars>>
    /\ UNCHANGED <<authVars, goalVars, profVars, procVars>>

\* POST /future_work, lines 848-862
CreateFutureWork(body) ==
    /\ future_work_seq < MaxRows
    /\ LET date == OrElse(body.created_date, toISOString(now))
           result == InsertRow(future_work, future_work_seq, FutureWorkDefaults,
                        Assign(<<"user_email", "title", "description", "priority", "timeline", "created_date">>,
                               <<body.user_email, body.title, body.description,
                                 OrElse(body.priority, Str(<<"m", "e", "d", "i", "u", "m">>)), body.timeline, date>>),
                        RefersToUser(users, Param(body.user_email)))
       IN  /\ future_work' = result.tbl
           /\ future_work_seq' = result.seq
           /\ crudReq' = CrudRequest("createFutureWork", [id |-> result.seq], body,
                             IF result.ok THEN Json(200, result.rows[1])
                             ELSE JsonError(500, "Error creating future work."))
    /\ UNCHANGED <<projectVars, ideaVars, noteVars, deadlineVars, eventVars>>
    /\ UNCHANGED <<authVars, goalVars, profVars, procVars>>

\* PUT /future_work/:id, lines 864-876
UpdateFutureWork(id, body) ==
    /\ LET result == UpdateWhereId(future_work, id,
                        Assign(<<"title", "description", "priority", "timeline">>,
                               <<body.title, body.description, body.priority, body.timeline>>))
       IN  /\ future_work' = result.tbl
           /\ crudReq' = CrudRequest("updateFutureWork", [id |-> id], body,
                                     Json(200, [updated |-> result.rowCount]))
    /\ UNCHANGED <<future_work_seq, projectVars, ideaVars, noteVars, deadlineVars, eventVars>>
    /\ UNCHANGED <<authVars, goalVars, profVars, procVars>>

\* DELETE /future_work/:id, lines 878-886
DeleteFutureWork(id) ==
    /\ LET result == DeleteWhereId(future_work, id) IN
       /\ future_work' = result.tbl
       /\ crudReq' = CrudRequest("deleteFutureWork", [id |-> id], Null,
                                 Json(200, [deleted |-> result.rowCount]))
    /\ UNCHANGED <<future_work_seq, projectVars, ideaVars, noteVars, deadlineVars, eventVars>>
    /\ UNCHANGED <<authVars, goalVars, profVars, procVars>>

(***************************************************************************)
(* Table deadlines and the /deadlines routes.                              *)
(***************************************************************************)
\* CREATE TABLE deadlines, lines 172-181: the DEFAULTs of the columns
DeadlineDefaults ==
    [user_email |-> Null, title |-> Null, description |-> Null,
     due_date |-> Null, priority |-> Str(<<"m", "e", "d", "i", "u", "m">>),
     status |-> Str(<<"p", "e", "n", "d", "i", "n", "g">>),
     created_date |-> Null]

DeadlineBodies ==
    {[user_email |-> Str(<<"a">>), title |-> Str(<<"D">>),
      description |-> Undefined, due_date |-> Str(<<"2">>),
      priority |-> Undefined, status |-> Undefined, created_date |-> Undefined],
     [user_email |-> Str(<<"a">>), title |-> Str(<<"E">>),
      description |-> Str(<<"d">>), due_date |-> Str(<<"1">>),
      priority |-> Str(<<"h">>), status |-> Str(<<"s">>),
      created_date |-> Str(<<"1">>)],
     [user_email |-> Str(<<"b">>), title |-> Str(<<"D">>),
      description |-> Undefined, due_date |-> Str(<<"1">>),
      priority |-> Undefined, status |-> Undefined, created_date |-> Undefined]}

DeadlineUpdates ==
    {[title |-> Str(<<"K">>), description |-> Str(<<"e">>),
      due_date |-> Str(<<"3">>), priority |-> Str(<<"l">>),
      status |-> Str(<<"t">>)],
     [title |-> Str(<<"K">>), description |-> Undefined,
      due_date |-> Undefined, priority |-> Undefined, status |-> Undefined]}

\* POST /deadlines, lines 902-916
CreateDeadline(body) ==
    /\ deadlines_seq < MaxRows
    /\ LET date == OrElse(body.created_date, toISOString(now))
           result == InsertRow(deadlines, deadlines_seq, DeadlineDefaults,
                        Assign(<<"user_email", "title", "description", "due_date", "priority", "status", "created_date">>,
                               <<body.user_email, body.title, body.description, body.due_date,
                                 OrElse(body.priority, Str(<<"m", "e", "d", "i", "u", "m">>)),
                                 OrElse(body.status, Str(<<"p", "e", "n", "d", "i", "n", "g">>)), date>>),
                        RefersToUser(users, Param(body.user_email)))
       IN  /\ deadlines' = result.tbl
           /\ deadlines_seq' = result.seq
           /\ crudReq' = CrudRequest("createDeadline", [id |-> result.seq], body,
                             IF result.ok THEN Json(200, result.rows[1])
                             ELSE JsonError(500, "Error creating deadline."))
    /\ UNCHANGED <<projectVars, ideaVars, noteVars, futureVars, eventVars>>
    /\ UNCHANGED <<authVars, goalVars, profVars, procVars>>

\* lines 922-923: the SET clause of PUT /deadlines/:id and its parameters
DeadlineSet(body) ==
    Assign(<<"title", "description", "due_date", "priority", "status">>,
           <<body.title, body.description, body.due_date, body.priority, body.status>>)

\* PUT /deadlines/:id, lines 918-930
UpdateDeadline(id, body) ==
    /\ LET result == UpdateWhereId(deadlines, id, DeadlineSet(body))
       IN  /\ deadlines' = result.tbl
           /\ crudReq' = CrudRequest("updateDeadline", [id |-> id], body,
                                     Json(200, [updated |-> result.rowCount]))
    /\ UNCHANGED <<deadlines_seq, projectVars, ideaVars, noteVars, futureVars, eventVars>>
    /\ UNCHANGED <<authVars, goalVars, profVars, procVars>>

\* DELETE /deadlines/:id, lines 932-940
DeleteDeadline(id) ==
    /\ LET result == DeleteWhereId(deadlines, id) IN
       /\ deadlines' = result.tbl
       /\ crudReq' = CrudRequest("deleteDeadline", [id |-> id], Null,
                                 Json(200, [deleted |-> result.rowCount]))
    /\ UNCHANGED <<deadlines_seq, projectVars, ideaVars, noteVars, futureVars, eventVars>>
    /\ UNCHANGED <<authVars, goalVars, profVars, procVars>>

\* SelectDeadlines without the ORDER BY: the rows in any order
SelectDeadlines_Unordered(tbl, email) ==
    LET S == {r \in tbl : r.user_email = email}
    IN  {q \in [1..Cardinality(S) -> S] :
            \A i, j \in 1..Cardinality(S) : i < j => q[i] # q[j]}

\* SELECT * FROM deadlines WHERE user_email = $1 ORDER BY due_date ASC: the
\* orders in which the rows may be answered
SelectDeadlines(tbl, email) ==
    LET S == {r \in tbl : r.user_email = email}
    IN  {q \in [1..Cardinality(S) -> S] :
            \A i, j \in 1..Cardinality(S) :
                i < j => (q[i] # q[j] /\ AscLeq(q[i].due_date, q[j].due_date))}

\* GET /deadlines/:email, lines 889-900
GetDeadlines(email) ==
    /\ \E rows \in SelectDeadlines(deadlines, email) :
          crudReq' = CrudRequest("getDeadlines", [email |-> email], Null, Json(200, rows))
    /\ UNCHANGED <<projectVars, ideaVars, noteVars, futureVars, deadlineVars, eventVars>>
    /\ UNCHANGED <<authVars, goalVars, profVars, procVars>>

(***************************************************************************)
(* PUT /career_goals/:id.                                                  *)
(***************************************************************************)
GoalUpdates ==
    {[title |-> Str(<<"K">>), description |-> Str(<<"e">>), progress |-> Num(60),
      goal_type |-> Str(<<"h">>), target_date |-> Str(<<"2">>), total_stages |-> Num(4),
      current_stage |-> Num(2), start_date |-> Str(<<"1">>),
      stage_description |-> Str(<<"f">>)],
     [title |-> Str(<<"K">>), description |-> Undefined, progress |-> Undefined,
      goal_type |-> Undefined, target_date |-> Undefined, total_stages |-> Undefined,
      current_stage |-> Undefined, start_date |-> Undefined,
      stage_description |-> Undefined]}

\* GET /career_goals/:email and its alias GET /career/:email, lines 686-710
GetCareerGoals(email) ==
    /\ \E rows \in SelectNewestFirst(career_goals, email) :
          crudReq' = CrudRequest("getCareerGoals", [email |-> email], Null, Json(200, rows))
    /\ UNCHANGED <<projectVars, ideaVars, noteVars, futureVars, deadlineVars, eventVars>>
    /\ UNCHANGED <<authVars, goalVars, profVars, procVars>>

\* PUT /career_goals/:id, lines 738-762
UpdateGoal(id, body) ==
    /\ LET result == UpdateWhereId(career_goals, id,
                        Assign(<<"title", "description", "progress", "goal_type",
                                 "target_date", "total_stages", "current_stage",
                                 "start_date", "stage_description">>,
                               <<body.title, body.description, body.progress, body.goal_type,
                                 body.target_date, body.total_stages, body.current_stage,
                                 body.start_date, body.stage_description>>))
       IN  /\ career_goals' = result.tbl
           /\ crudReq' = CrudRequest("updateGoal", [id |-> id], body,
                                     Json(200, [updated |-> result.rowCount]))
    /\ UNCHANGED <<now, career_goals_seq, career_stage_history, career_stage_history_seq,
                   goalReq>>
    /\ UNCHANGED <<projectVars, ideaVars, noteVars, futureVars, deadlineVars, eventVars>>
    /\ UNCHANGED <<authVars, profVars, procVars>>

(***************************************************************************)
(* Table calendar_events and the /events and /calendar_events routes.      *)
(***************************************************************************)
Bool(b) == [t |-> "boolean", b |-> b]

\* Boolean(x)
Boolean(x) == Bool(~Falsy(x))

\* x ? 1 : 0
Flag(x) == IF Falsy(x) THEN Num(0) ELSE Num(1)

\* CREATE TABLE calendar_events, lines 186-209: the DEFAULTs of the columns
EventDefaults ==
    [user_email |-> Null, title |-> Null, description |-> Null, event_date |-> Null,
     start_time |-> Null, end_time |-> Null, location |-> Null,
     category |-> Str(<<"W", "o", "r", "k">>), attendees |-> Null, reminder |-> Num(15),
     is_all_day |-> Num(0), recurrence |-> Str(<<"n", "o", "n", "e">>),
     recurrence_end |-> Null, show_as |-> Str(<<"b", "u", "s", "y">>),
     priority |-> Str(<<"n", "o", "r", "m", "a", "l">>), is_online |-> Num(0),
     meeting_link |-> Null, attachments |-> Null, repeat_weekly |-> Num(0),
     created_date |-> Null, modified_date |-> Null]

NoEventBody ==
    [userEmail |-> Undefined, title |-> Undefined, description |-> Undefined,
     date |-> Undefined, start |-> Undefined, end |-> Undefined, location |-> Undefined,
     category |-> Undefined, attendees |-> Undefined, reminder |-> Undefined,
     isAllDay |-> Undefined, recurrence |-> Undefined, recurrenceEnd |-> Undefined,
     showAs |-> Undefined, priority |-> Undefined, isOnline |-> Undefined,
     meetingLink |-> Undefined, attachments |-> Undefined, repeatWeekly |-> Undefined,
     created_date |-> Undefined]

FullEventBody ==
    [userEmail |-> Str(<<"a">>), title |-> Str(<<"N">>), description |-> Str(<<"d">>),
     date |-> Str(<<"1">>), start |-> Str(<<"1">>), end |-> Str(<<"3">>),
     location |-> Str(<<"l">>), category |-> Str(<<"c">>), attendees |-> Str(<<"p">>),
     reminder |-> Num(5), isAllDay |-> Num(0), recurrence |-> Str(<<"r">>),
     recurrenceEnd |-> Str(<<"4">>), showAs |-> Str(<<"f">>), priority |-> Str(<<"h">>),
     isOnline |-> Bool(TRUE), meetingLink |-> Str(<<"m">>), attachments |-> Str(<<"x">>),
     repeatWeekly |-> Bool(TRUE), created_date |-> Str(<<"1">>)]

EventBodies ==
    {[NoEventBody EXCEPT !.userEmail = Str(<<"a">>), !.title = Str(<<"M">>),
         !.date = Str(<<"1">>), !.start = Str(<<"2">>), !.isAllDay = Bool(TRUE),
         !.repeatWeekly = Bool(FALSE)],
     FullEventBody}

EventUpdates ==
    {[FullEventBody EXCEPT !.title = Str(<<"K">>), !.date = Str(<<"0">>),
         !.start = Str(<<"5">>), !.isAllDay = Bool(TRUE), !.isOnline = Bool(FALSE),
         !.repeatWeekly = Num(0)],
     [NoEventBody EXCEPT !.title = Str(<<"K">>)]}

LegacyEventBodies ==
    {[user_email |-> Str(<<"a">>), title |-> Str(<<"L">>), description |-> Undefined,
      event_date |-> Str(<<"1">>), start_time |-> Str(<<"0">>), end_time |-> Undefined,
      repeat_weekly |-> Undefined, created_date |-> Undefined],
     [user_email |-> Str(<<"b">>), title |-> Str(<<"L">>), description |-> Str(<<"d">>),
      event_date |-> Str(<<"2">>), start_time |-> Str(<<"1">>), end_time |-> Str(<<"2">>),
      repeat_weekly |-> Num(1), created_date |-> Str(<<"1">>)]}

LegacyEventUpdates ==
    {[title |-> Str(<<"K">>), description |-> Str(<<"e">>), event_date |-> Str(<<"1">>),
      start_time |-> Str(<<"3">>), end_time |-> Str(<<"4">>), repeat_weekly |-> Num(0)],
     [title |-> Str(<<"K">>), description |-> Undefined, event_date |-> Undefined,
      start_time |-> Undefined, end_time |-> Undefined, repeat_weekly |-> Undefined]}

\* lines 946-952: the row as the SELECT names its columns; PostgreSQL folds
\* an alias that is not quoted to lower case
EventSelected(r) ==
    [id |-> r.id, title |-> r.title, description |-> r.description, date |-> r.event_date,
     start |-> r.start_time, end |-> r.end_time, location |-> r.location,
     category |-> r.category, attendees |-> r.attendees, reminder |-> r.reminder,
     isallday |-> r.is_all_day, recurrence |-> r.recurrence,
     recurrenceend |-> r.recurrence_end, showas |-> r.show_as, priority |-> r.priority,
     isonline |-> r.is_online, meetinglink |-> r.meeting_link,
     attachments |-> r.attachments, repeatweekly |-> r.repeat_weekly,
     createddate |-> r.created_date, modifieddate |-> r.modified_date]

\* EventView without the conversion: the flags as the columns hold them
EventView_Numbers(row) ==
    [isAllDay |-> row.isallday, isOnline |-> row.isonline,
     repeatWeekly |-> row.repeatweekly] @@ row

\* lines 956-961: { ...row, isAllDay, isOnline, repeatWeekly }
EventView(row) ==
    [isAllDay |-> Boolean(row.isallday), isOnline |-> Boolean(row.isonline),
     repeatWeekly |-> Boolean(row.repeatweekly)] @@ row

\* ... FROM calendar_events WHERE user_email = $1
\* ORDER BY event_date ASC, start_time ASC: may a stand before b
EventOrder(a, b) ==
    \/ (a.event_date # b.event_date /\ AscLeq(a.event_date, b.event_date))
    \/ (a.event_date = b.event_date /\ AscLeq(a.start_time, b.start_time))

\* lines 945-954: the orders in which the rows may be answered
SelectEvents(tbl, email) ==
    LET S == {r \in tbl : r.user_email = email}
    IN  {q \in [1..Cardinality(S) -> S] :
            \A i, j \in 1..Cardinality(S) :
                i < j => (q[i] # q[j] /\ EventOrder(q[i], q[j]))}

\* SELECT * FROM calendar_events WHERE user_email = $1 ORDER BY event_date ASC
SelectCalendarEvents(tbl, email) ==
    LET S == {r \in tbl : r.user_email = email}
    IN  {q \in [1..Cardinality(S) -> S] :
            \A i, j \in 1..Cardinality(S) :
                i < j => (q[i] # q[j] /\ AscLeq(q[i].event_date, q[j].event_date))}

\* lines 945-961: what GET /events/:email may answer from a table
EventsAnswer(tbl, email) ==
    {[i \in DOMAIN rows |-> EventView(EventSelected(rows[i]))] :
        rows \in SelectEvents(tbl, email)}

\* GET /events/:email, lines 943-967
GetEvents(email) ==
    /\ \E answer \in EventsAnswer(calendar_events, email) :
          crudReq' = CrudRequest("getEvents", [email |-> email], Null, Json(200, answer))
    /\ UNCHANGED <<projectVars, ideaVars, noteVars, futureVars, deadlineVars, eventVars>>
    /\ UNCHANGED <<authVars, goalVars, profVars, procVars>>

\* POST /events, lines 969-998
CreateEvent(body) ==
    /\ calendar_events_seq < MaxRows
    /\ LET created_date == toISOString(now)
           modified_date == created_date
           result == InsertRow(calendar_events, calendar_events_seq, EventDefaults,
                        Assign(<<"user_email", "title", "description", "event_date",
                                 "start_time", "end_time", "location", "category",
                                 "attendees", "reminder", "is_all_day", "recurrence",
                                 "recurrence_end", "show_as", "priority",
                                 "is_online", "meeting_link", "attachments",
                                 "repeat_weekly", "created_date", "modified_date">>,
                               <<body.userEmail, body.title, body.description, body.date,
                                 body.start, body.end, body.location,
                                 OrElse(body.category, Str(<<"W", "o", "r", "k">>)),
                                 body.attendees, OrElse(body.reminder, Num(15)),
                                 Flag(body.isAllDay),
                                 OrElse(body.recurrence, Str(<<"n", "o", "n", "e">>)),
                                 body.recurrenceEnd,
                                 OrElse(body.showAs, Str(<<"b", "u", "s", "y">>)),
                                 OrElse(body.priority, Str(<<"n", "o", "r", "m", "a", "l">>)),
                                 Flag(body.isOnline), body.meetingLink,
                                 body.attachments, Flag(body.repeatWeekly), created_date,
                                 modified_date>>),
                        RefersToUser(users, Param(body.userEmail)))
       IN  /\ calendar_events' = result.tbl
           /\ calendar_events_seq' = result.seq
           /\ crudReq' = CrudRequest("createEvent", [id |-> result.seq], body,
                             IF result.ok THEN Json(200, result.rows[1])
                             ELSE JsonError(500, "Error creating event."))
    /\ UNCHANGED <<projectVars, ideaVars, noteVars, futureVars, deadlineVars>>
    /\ UNCHANGED <<authVars, goalVars, profVars, procVars>>

\* lines 1011-1024: the SET clause of PUT /events/:id and its parameters
EventSet(body, modified_date) ==
    Assign(<<"title", "description", "event_date", "start_time", "end_time", "location",
             "category", "attendees", "reminder", "is_all_day", "recurrence",
             "recurrence_end", "show_as", "priority", "is_online", "meeting_link",
             "attachments", "repeat_weekly", "modified_date">>,
           <<body.title, body.description, body.date, body.start, body.end, body.location,
             body.category, body.attendees, body.reminder, Flag(body.isAllDay),
             body.recurrence, body.recurrenceEnd, body.showAs, body.priority,
             Flag(body.isOnline), body.meetingLink, body.attachments,
             Flag(body.repeatWeekly), modified_date>>)

\* PUT /events/:id, lines 1000-1030
UpdateEvent(id, body) ==
    /\ LET modified_date == toISOString(now)
           result == UpdateWhereId(calendar_events, id, EventSet(body, modified_date))
       IN  /\ calendar_events' = result.tbl
           /\ crudReq' = CrudRequest("updateEvent", [id |-> id], body,
                                     Json(200, [updated |-> result.rowCount]))
    /\ UNCHANGED <<calendar_events_seq, projectVars, ideaVars, noteVars, futureVars,
                   deadlineVars>>
    /\ UNCHANGED <<authVars, goalVars, profVars, procVars>>

\* DELETE /events/:id, lines 1032-1040
DeleteEvent(id) ==
    /\ LET result == DeleteWhereId(calendar_events, id) IN
       /\ calendar_events' = result.tbl
       /\ crudReq' = CrudRequest("deleteEvent", [id |-> id], Null,
                                 Json(200, [deleted |-> result.rowCount]))
    /\ UNCHANGED <<calendar_events_seq, projectVars, ideaVars, noteVars, futureVars,
                   deadlineVars>>
    /\ UNCHANGED <<authVars, goalVars, profVars, procVars>>

\* GET /calendar_events/:email, lines 1043-1054
GetCalendarEvents(email) ==
    /\ \E rows \in SelectCalendarEvents(calendar_events, email) :
          crudReq' = CrudRequest("getCalendarEvents", [email |-> email], Null,
                                 Json(200, rows))
    /\ UNCHANGED <<projectVars, ideaVars, noteVars, futureVars, deadlineVars, eventVars>>
    /\ UNCHANGED <<authVars, goalVars, profVars, procVars>>

\* POST /calendar_events, lines 1056-1070
CreateCalendarEvent(body) ==
    /\ calendar_events_seq < MaxRows
    /\ LET date == OrElse(body.created_date, toISOString(now))
           result == InsertRow(calendar_events, calendar_events_seq, EventDefaults,
                        Assign(<<"user_email", "title", "description", "event_date",
                                 "start_time", "end_time", "repeat_weekly", "created_date">>,
                               <<body.user_email, body.title, body.description,
                                 body.event_date, body.start_time, body.end_time,
                                 body.repeat_weekly, date>>),
                        RefersToUser(users, Param(body.user_email)))
       IN  /\ calendar_events' = result.tbl
           /\ calendar_events_seq' = result.seq
           /\ crudReq' = CrudRequest("createCalendarEvent", [id |-> result.seq], body,
                             IF result.ok THEN Json(200, result.rows[1])
                             ELSE JsonError(500, "Error creating event."))
    /\ UNCHANGED <<projectVars, ideaVars, noteVars, futureVars, deadlineVars>>
    /\ UNCHANGED <<authVars, goalVars, profVars, procVars>>

\* PUT /calendar_events/:id, lines 1072-1084
UpdateCalendarEvent(id, body) ==
    /\ LET result == UpdateWhereId(calendar_events, id,
                        Assign(<<"title", "description", "event_date", "start_time",
                                 "end_time", "repeat_weekly">>,
                               <<body.title, body.description, body.event_date,
                                 body.start_time, body.end_time, body.repeat_weekly>>))
       IN  /\ calendar_events' = result.tbl
           /\ crudReq' = CrudRequest("updateCalendarEvent", [id |-> id], body,
                                     Json(200, [updated |-> result.rowCount]))
    /\ UNCHANGED <<calendar_events_seq, projectVars, ideaVars, noteVars, futureVars,
                   deadlineVars>>
    /\ UNCHANGED <<authVars, goalVars, profVars, procVars>>

\* DELETE /calendar_events/:id, lines 1086-1094
DeleteCalendarEvent(id) ==
    /\ LET result == DeleteWhereId(calendar_events, id) IN
       /\ calendar_events' = result.tbl
       /\ crudReq' = CrudRequest("deleteCalendarEvent", [id |-> id], Null,
                                 Json(200, [deleted |-> result.rowCount]))
    /\ UNCHANGED <<calendar_events_seq, projectVars, ideaVars, noteVars, futureVars,
                   deadlineVars>>
    /\ UNCHANGED <<authVars, goalVars, profVars, procVars>>

(***************************************************************************)
(* GET /generate-resume/:email: the statuses and the kind of its answers.  *)
(***************************************************************************)
\* lines 1231-1558: 404 without a profile, 500 when a list does not parse,
\* the resume otherwise
GenerateResume(email) ==
    /\ LET rows == SelectProfiles(profiles, email)
           profile == CHOOSE r \in rows : TRUE
       IN  crudReq' = CrudRequest("generateResume", [email |-> email], Null,
              IF rows = {} THEN Html(404, [title |-> "Resume Not Available", h1 |-> "Profile Not Found"])
              ELSE IF \E f \in {"degrees", "employment", "courses", "grants", "awards"} :
                         ~ReadList(profile[f]).ok
              THEN Html(500, [title |-> "Error", h1 |-> "Error Generating Resume"])
              ELSE Html(200, "Resume"))
    /\ UNCHANGED <<projectVars, ideaVars, noteVars, futureVars, deadlineVars, eventVars>>
    /\ UNCHANGED <<authVars, goalVars, profVars, procVars>>

(***************************************************************************)
(* PUT /deadlines/:id and PUT /events/:id cut at their await: the handler  *)
(* builds the parameters, the UPDATE runs later as one statement, and the  *)
(* handlers of two connections interleave in between.                      *)
(***************************************************************************)
\* lines 918-923 and 1000-1025: the handler up to its await of pool.query
UpdateReceive(c, op, id, body) ==
    /\ Free(updReq[c])
    /\ updReq' = [updReq EXCEPT ![c] =
          [op |-> op, pc |-> "query", id |-> id, body |-> body,
           set |-> IF op = "updateDeadline" THEN DeadlineSet(body)
                   ELSE EventSet(body, toISOString(now)),
           res |-> NoResponse]]
    /\ UNCHANGED <<authVars, goalVars, profVars, crudVars, initDb>>

\* lines 921-925 and 1010-1027: the UPDATE runs and the handler answers
UpdateQuery(c) ==
    /\ updReq[c].pc = "query"
    /\ LET result == UpdateWhereId(IF updReq[c].op = "updateDeadline" THEN deadlines
                                   ELSE calendar_events,
                                   updReq[c].id, updReq[c].set)
       IN  /\ IF updReq[c].op = "updateDeadline"
              THEN deadlines' = result.tbl /\ UNCHANGED calendar_events
              ELSE calendar_events' = result.tbl /\ UNCHANGED deadlines
           /\ updReq' = [updReq EXCEPT ![c].pc = "done",
                            ![c].res = Json(200, [updated |-> result.rowCount])]
    /\ UNCHANGED <<projectVars, ideaVars, noteVars, futureVars, deadlines_seq,
                   calendar_events_seq, crudReq, initDb>>
    /\ UNCHANGED <<authVars, goalVars, profVars>>

(***************************************************************************)
(* Start-up: the connection test, initializeDatabase and the handlers of   *)
(* the process.  A query fails with an error of the statement, the         *)
(* connection staying, or because the connection is lost; on a lost        *)
(* connection every later query fails and the server aborts the open       *)
(* transaction.  CREATE TABLE is transactional.                            *)
(***************************************************************************)
\* the tables of initializeDatabase, in the order of their statements
TableNames ==
    <<"users", "projects", "colleagues", "meetings", "ideas", "notes", "career_goals",
      "career_stage_history", "future_work", "deadlines", "calendar_events", "profiles">>

Schema == {TableNames[i] : i \in DOMAIN TableNames}

\* the process as the module body has run: initializeDatabase() is called
\* over a database with the tables `schema`
Starting(schema) ==
    [pc |-> "connect", k |-> 1, connected |-> FALSE, txn |-> {}, before |-> schema,
     schema |-> schema, thrown |-> FALSE, promise |-> "pending", test |-> "pending",
     log |-> {}, exit |-> "running"]

\* the process after a start without failure
DatabaseReady ==
    [Starting({}) EXCEPT !.pc = "returned", !.k = Len(TableNames) + 1, !.connected = TRUE,
       !.schema = Schema, !.promise = "resolved", !.test = "connected",
       !.log = {"Successfully connected to PostgreSQL database",
                "Database tables initialized successfully"}]

\* process.on('uncaughtException'), lines 1596-1599
uncaughtException(p) ==
    [p EXCEPT !.log = @ \cup {"Uncaught Exception:"}, !.exit = "1"]

\* unhandledRejection of a process without a listener for it: the rejection
\* is raised as an uncaught exception
unhandledRejection_NotRegistered(p) == uncaughtException(p)

\* process.on('unhandledRejection'), lines 1592-1594
unhandledRejection(p) ==
    [p EXCEPT !.log = @ \cup {"Unhandled Rejection at:"}]

QueryOutcomes == {"ok", "error", "lost"}

\* what a query answers: nothing but a failure once the connection is lost
Outcome(o) == IF initDb.connected THEN o ELSE "lost"

\* what a failed query leaves: the catch block is entered
Caught(o) ==
    [initDb EXCEPT !.pc = "rollback", !.connected = (Outcome(o) # "lost"),
                   !.txn = IF Outcome(o) = "lost" THEN {} ELSE @]

\* lines 20-27: the connection test
ConnectionTest(o) ==
    /\ initDb.exit = "running"
    /\ initDb.test = "pending"
    /\ initDb' = IF o = "ok"
                 THEN [initDb EXCEPT !.test = "connected",
                          !.log = @ \cup {"Successfully connected to PostgreSQL database"}]
                 ELSE [initDb EXCEPT !.test = "failed",
                          !.log = @ \cup {"Error connecting to PostgreSQL database:"}]
    /\ UNCHANGED <<authVars, goalVars, profVars, crudVars, updReq>>

\* line 36: await pool.connect(), outside the try; line 253 calls
\* initializeDatabase() and drops its promise
InitConnect(o) ==
    /\ initDb.exit = "running"
    /\ initDb.pc = "connect"
    /\ initDb' = IF o = "ok"
                 THEN [initDb EXCEPT !.pc = "begin", !.connected = TRUE]
                 ELSE unhandledRejection([initDb EXCEPT !.pc = "returned",
                                                       !.promise = "rejected"])
    /\ UNCHANGED <<authVars, goalVars, profVars, crudVars, updReq>>

\* line 38: BEGIN
InitBegin(o) ==
    /\ initDb.exit = "running"
    /\ initDb.pc = "begin"
    /\ initDb' = IF Outcome(o) = "ok" THEN [initDb EXCEPT !.pc = "create"] ELSE Caught(o)
    /\ UNCHANGED <<authVars, goalVars, profVars, crudVars, updReq>>

\* lines 41-239: the k-th CREATE TABLE IF NOT EXISTS
InitCreateTable(o) ==
    /\ initDb.exit = "running"
    /\ initDb.pc = "create"
    /\ initDb' = IF Outcome(o) = "ok"
                 THEN [initDb EXCEPT
                          !.txn = @ \cup ({TableNames[initDb.k]} \ initDb.schema),
                          !.k = @ + 1,
                          !.pc = IF initDb.k = Len(TableNames) THEN "commit" ELSE "create"]
                 ELSE Caught(o)
    /\ UNCHANGED <<authVars, goalVars, profVars, crudVars, updReq>>

\* lines 242-243: COMMIT; the connection may be lost before the statement
\* takes effect or after it
InitCommit(o, committed) ==
    /\ initDb.exit = "running"
    /\ initDb.pc = "commit"
    /\ initDb' = IF Outcome(o) = "ok"
                 THEN [initDb EXCEPT !.pc = "release", !.schema = @ \cup initDb.txn,
                          !.txn = {},
                          !.log = @ \cup {"Database tables initialized successfully"}]
                 ELSE IF Outcome(o) = "lost" /\ initDb.connected /\ committed
                 THEN [Caught(o) EXCEPT !.schema = @ \cup initDb.txn]
                 ELSE Caught(o)
    /\ UNCHANGED <<authVars, goalVars, profVars, crudVars, updReq>>

\* lines 244-246: ROLLBACK in the catch block; when it fails the error
\* leaves the catch block
InitRollback(o) ==
    /\ initDb.exit = "running"
    /\ initDb.pc = "rollback"
    /\ initDb' = IF Outcome(o) = "ok"
                 THEN [initDb EXCEPT !.pc = "release", !.txn = {},
                          !.log = @ \cup {"Error initializing database:"}]
                 ELSE [initDb EXCEPT !.pc = "release", !.thrown = TRUE,
                          !.connected = (Outcome(o) # "lost"),
                          !.txn = IF Outcome(o) = "lost" THEN {} ELSE @]
    /\ UNCHANGED <<authVars, goalVars, profVars, crudVars, updReq>>

\* lines 247-250: client.release() in the finally block, and the promise of
\* initializeDatabase() settles
InitRelease ==
    /\ initDb.exit = "running"
    /\ initDb.pc = "release"
    /\ initDb' = IF initDb.thrown
                 THEN unhandledRejection([initDb EXCEPT !.pc = "returned",
                                                       !.promise = "rejected"])
                 ELSE [initDb EXCEPT !.pc = "returned", !.promise = "resolved"]
    /\ UNCHANGED <<authVars, goalVars, profVars, crudVars, updReq>>

(***************************************************************************)
(* The states the routes start from, and the routes served together.       *)
(***************************************************************************)
\* the clock, and the other tables as initializeDatabase leaves them
TablesAtStart ==
    /\ now = 0
    /\ career_goals = {}
    /\ career_goals_seq = 0
    /\ career_stage_history = {}
    /\ career_stage_history_seq = 0
    /\ goalReq = [c \in Clients |-> IdleGoalRequest]
    /\ profiles = {}
    /\ profiles_seq = 0
    /\ profReq = [c \in Clients |-> IdleProfileRequest]
    /\ projects = {}
    /\ projects_seq = 0
    /\ ideas = {}
    /\ ideas_seq = 0
    /\ notes = {}
    /\ notes_seq = 0
    /\ future_work = {}
    /\ future_work_seq = 0
    /\ deadlines = {}
    /\ deadlines_seq = 0
    /\ calendar_events = {}
    /\ calendar_events_seq = 0
    /\ crudReq = IdleRequest
    /\ updReq = [c \in Clients |-> IdleRequest]

\* the users table after one registration: the career goals of a registered user
RegisteredUsers ==
    {[id |-> 1, email |-> <<"a">>, password |-> bcryptHash(Secre1, saltRounds, 1)]}

InitGoals ==
    /\ users = RegisteredUsers
    /\ usersSeq = 1
    /\ authReq = [c \in Clients |-> IdleRequest]
    /\ TablesAtStart
    /\ initDb = DatabaseReady

NextGoals ==
    \/ Tick /\ UNCHANGED <<career_goals, career_goals_seq, career_stage_history,
                           career_stage_history_seq, goalReq>>
            /\ UNCHANGED <<authVars, profVars, crudVars, procVars>>
    \/ \E c \in Clients :
        \/ \E body \in GoalBodies : CreateGoal(c, body)
        \/ \E id \in GoalIds : DeleteGoalHistory(c, id)
        \/ DeleteGoalRow(c)
        \/ DeleteGoalRejected(c)
        \/ \E id \in GoalIds : GetHistory(c, id)
        \/ \E id \in GoalIds, body \in HistoryBodies : AddHistory(c, id, body)
        \/ \E id \in GoalIds, h \in HistoryIds : DeleteHistory(c, id, h)

SpecGoals == InitGoals /\ [][NextGoals]_vars

\* the users table after two registrations: the profiles of registered users
InitProfile ==
    /\ users = RegisteredUsers \cup
                  {[id |-> 2, email |-> <<"b">>, password |-> bcryptHash(Wrong1, saltRounds, 2)]}
    /\ usersSeq = 2
    /\ authReq = [c \in Clients |-> IdleRequest]
    /\ TablesAtStart
    /\ initDb = DatabaseReady

NextProfile ==
    \/ Tick /\ UNCHANGED <<career_goals, career_goals_seq, career_stage_history,
                           career_stage_history_seq, goalReq>>
            /\ UNCHANGED <<authVars, profVars, crudVars, procVars>>
    \/ \E c \in Clients :
        \/ \E body \in ProfileBodies : PostProfileReceive(c, body)
        \/ PostProfileCheck(c)
        \/ PostProfileUpdate(c)
        \/ PostProfileInsert(c)
        \/ \E email \in ProfileEmails : GetProfile(c, email)
        \/ \E email \in ProfileEmails : DeleteProfile(c, email)

SpecProfile == InitProfile /\ [][NextProfile]_vars

(***************************************************************************)
(* The auth routes over the users table.                                   *)
(***************************************************************************)
InitAuth ==
    /\ users = {}
    /\ usersSeq = 0
    /\ authReq = [c \in Clients |-> IdleRequest]
    /\ TablesAtStart
    /\ initDb = DatabaseReady

NextAuth ==
    \E c \in Clients :
        \/ \E body \in AuthBodies : RegisterReceive(c, body)
        \/ RegisterInsert(c)
        \/ \E body \in AuthBodies : SignupReceive(c, body)
        \/ SignupInsert(c)
        \/ \E body \in AuthBodies : LoginReceive(c, body)
        \/ LoginSelect(c)
        \/ LoginCompare(c)

SpecAuth == InitAuth /\ [][NextAuth]_vars

\* the process starts over an empty database or over one an earlier start
\* has initialized
InitStartup ==
    /\ users = {}
    /\ usersSeq = 0
    /\ authReq = [c \in Clients |-> IdleRequest]
    /\ TablesAtStart
    /\ \E schema \in {{}, Schema} : initDb = Starting(schema)

NextStartup ==
    \/ \E o \in {"ok", "error"} : ConnectionTest(o)
    \/ \E o \in {"ok", "error"} : InitConnect(o)
    \/ \E o \in QueryOutcomes : InitBegin(o)
    \/ \E o \in QueryOutcomes : InitCreateTable(o)
    \/ \E o \in QueryOutcomes, committed \in BOOLEAN : InitCommit(o, committed)
    \/ \E o \in QueryOutcomes : InitRollback(o)
    \/ InitRelease

SpecStartup == InitStartup /\ [][NextStartup]_vars

\* the career_goals table after one POST /career_goals
GoalsAtStart ==
    InsertGoal({}, 0, RegisteredUsers,
               [user_email |-> Str(<<"a">>), title |-> Str(<<"P">>), description |-> Null,
                progress |-> Num(0),
                goal_type |-> Str(<<"g", "e", "n", "e", "r", "a", "l">>),
                target_date |-> Null, total_stages |-> Num(5), current_stage |-> Num(0),
                start_date |-> Null, stage_description |-> Null,
                created_date |-> toISOString(0)]).goals

\* two registered users, one of them with a career goal
InitCrud ==
    /\ users = RegisteredUsers \cup
                  {[id |-> 2, email |-> <<"b">>, password |-> bcryptHash(Wrong1, saltRounds, 2)]}
    /\ usersSeq = 2
    /\ authReq = [c \in Clients |-> IdleRequest]
    /\ now = 0
    /\ career_goals = GoalsAtStart
    /\ career_goals_seq = 1
    /\ career_stage_history = {}
    /\ career_stage_history_seq = 0
    /\ goalReq = [c \in Clients |-> IdleGoalRequest]
    /\ profiles = {}
    /\ profiles_seq = 0
    /\ profReq = [c \in Clients |-> IdleProfileRequest]
    /\ projects = {}
    /\ projects_seq = 0
    /\ ideas = {}
    /\ ideas_seq = 0
    /\ notes = {}
    /\ notes_seq = 0
    /\ future_work = {}
    /\ future_work_seq = 0
    /\ deadlines = {}
    /\ deadlines_seq = 0
    /\ calendar_events = {}
    /\ calendar_events_seq = 0
    /\ crudReq = IdleRequest
    /\ updReq = [c \in Clients |-> IdleRequest]
    /\ initDb = DatabaseReady

\* the tables of these routes that have been written to
TablesInUse ==
    LET written == <<projects_seq, ideas_seq, notes_seq, future_work_seq, deadlines_seq,
                     calendar_events_seq, IF career_goals = GoalsAtStart THEN 0 ELSE 1>>
    IN  Cardinality({k \in DOMAIN written : written[k] > 0})

\* the routes of a table may be called: the table has been written to, or
\* one more table may be
MayUse(seq) == seq > 0 \/ TablesInUse < MaxTables

NextCrud ==
    \/ Tick /\ UNCHANGED <<career_goals, career_goals_seq, career_stage_history,
                           career_stage_history_seq, goalReq>>
            /\ UNCHANGED <<authVars, profVars, crudVars, procVars>>
    \/ MayUse(projects_seq)
          /\ \E body \in ProjectBodies : CreateProject(body)
    \/ MayUse(projects_seq)
          /\ \E email \in Owners : GetProjects(email)
    \/ MayUse(projects_seq)
          /\ \E id \in RowIds, body \in ProjectUpdates : UpdateProject(id, body)
    \/ MayUse(projects_seq)
          /\ \E id \in RowIds : DeleteProject(id)
    \/ MayUse(projects_seq)
          /\ \E id \in RowIds : GetDescription(id)
    \/ MayUse(projects_seq)
          /\ \E id \in RowIds, body \in DescriptionBodies : UpdateDescription(id, body)
    \/ MayUse(ideas_seq)
          /\ \E email \in Owners : GetIdeas(email)
    \/ MayUse(ideas_seq)
          /\ \E body \in IdeaBodies : CreateIdea(body)
    \/ MayUse(ideas_seq)
          /\ \E id \in RowIds, body \in IdeaUpdates : UpdateIdea(id, body)
    \/ MayUse(ideas_seq)
          /\ \E id \in RowIds : DeleteIdea(id)
    \/ MayUse(notes_seq)
          /\ \E email \in Owners : GetNotes(email)
    \/ MayUse(notes_seq)
          /\ \E body \in NoteBodies : CreateNote(body)
    \/ MayUse(notes_seq)
          /\ \E id \in RowIds, body \in NoteUpdates : UpdateNote(id, body)
    \/ MayUse(notes_seq)
          /\ \E id \in RowIds : DeleteNote(id)
    \/ MayUse(future_work_seq)
          /\ \E email \in Owners : GetFutureWork(email)
    \/ MayUse(future_work_seq)
          /\ \E body \in FutureWorkBodies : CreateFutureWork(body)
    \/ MayUse(future_work_seq)
          /\ \E id \in RowIds, body \in FutureWorkUpdates : UpdateFutureWork(id, body)
    \/ MayUse(future_work_seq)
          /\ \E id \in RowIds : DeleteFutureWork(id)
    \/ MayUse(deadlines_seq)
          /\ \E body \in DeadlineBodies : CreateDeadline(body)
    \/ MayUse(deadlines_seq)
          /\ \E id \in RowIds, body \in DeadlineUpdates : UpdateDeadline(id, body)
    \/ MayUse(deadlines_seq)
          /\ \E id \in RowIds : DeleteDeadline(id)
    \/ MayUse(deadlines_seq)
          /\ \E email \in Owners : GetDeadlines(email)
    \/ MayUse(IF career_goals = GoalsAtStart THEN 0 ELSE 1)
          /\ \E email \in Owners : GetCareerGoals(email)
    \/ MayUse(IF career_goals = GoalsAtStart THEN 0 ELSE 1)
          /\ \E id \in RowIds, body \in GoalUpdates  : UpdateGoal(id, body)
    \/ MayUse(calendar_events_seq)
          /\ \E email \in Owners : GetEvents(email)
    \/ MayUse(calendar_events_seq)
          /\ \E body \in EventBodies : CreateEvent(body)
    \/ MayUse(calendar_events_seq)
          /\ \E id \in RowIds, body \in EventUpdates : UpdateEvent(id, body)
    \/ MayUse(calendar_events_seq)
          /\ \E id \in RowIds : DeleteEvent(id)
    \/ MayUse(calendar_events_seq)
          /\ \E email \in Owners : GetCalendarEvents(email)
    \/ MayUse(calendar_events_seq)
          /\ \E body \in LegacyEventBodies : CreateCalendarEvent(body)
    \/ MayUse(calendar_events_seq)
          /\ \E id \in RowIds, body \in LegacyEventUpdates : UpdateCalendarEvent(id, body)
    \/ MayUse(calendar_events_seq)
          /\ \E id \in RowIds : DeleteCalendarEvent(id)
    \/ MayUse(0)
          /\ \E email \in Owners : GenerateResume(email)

SpecCrud == InitCrud /\ [][NextCrud]_vars

(***************************************************************************)
(* The routes that validate their body, one family of them in a behaviour. *)
(***************************************************************************)
AuthIdle == \A c \in Clients : authReq[c] = IdleRequest

ProfileIdle == \A c \in Clients : profReq[c] = IdleProfileRequest

\* the families of routes whose requests a behaviour may hold
OnlyAuth == ProfileIdle /\ crudReq = IdleRequest

OnlyProfile == AuthIdle /\ crudReq = IdleRequest

OnlyProjects == AuthIdle /\ ProfileIdle

NextValidation ==
    \/ \E c \in Clients :
        \/ OnlyAuth /\ \E body \in AuthBodies : RegisterReceive(c, body)
        \/ OnlyAuth /\ RegisterInsert(c)
        \/ OnlyAuth /\ \E body \in AuthBodies : SignupReceive(c, body)
        \/ OnlyAuth /\ SignupInsert(c)
        \/ OnlyAuth /\ \E body \in AuthBodies : LoginReceive(c, body)
        \/ OnlyAuth /\ LoginSelect(c)
        \/ OnlyAuth /\ LoginCompare(c)
        \/ OnlyProfile /\ \E body \in ProfileBodies : PostProfileReceive(c, body)
        \/ OnlyProfile /\ PostProfileCheck(c)
        \/ OnlyProfile /\ PostProfileUpdate(c)
        \/ OnlyProfile /\ PostProfileInsert(c)
    \/ OnlyProjects /\ \E body \in ProjectBodies : CreateProject(body)
    \/ OnlyProjects /\ \E email \in Owners : GetProjects(email)

\* one registered user and no other row
SpecValidation == InitGoals /\ [][NextValidation]_vars

(***************************************************************************)
(* Every route, the routes of one family in a behaviour.                   *)
(***************************************************************************)
GoalsIdle == \A c \in Clients : goalReq[c] = IdleGoalRequest

\* of the one-statement routes, only GET /generate-resume/:email was called
ResumeOnly == TablesInUse = 0 /\ crudReq.op \in {"idle", "generateResume"}

NextErrors ==
    \/ Tick /\ UNCHANGED <<career_goals, career_goals_seq, career_stage_history,
                           career_stage_history_seq, goalReq>>
            /\ UNCHANGED <<authVars, profVars, crudVars, procVars>>
    \/ (ProfileIdle /\ GoalsIdle /\ crudReq = IdleRequest) /\ NextAuth
    \/ (AuthIdle /\ ProfileIdle /\ crudReq = IdleRequest)
          /\ \E c \in {1} :
                \/ \E body \in GoalBodies : CreateGoal(c, body)
                \/ \E id \in GoalIds : DeleteGoalHistory(c, id)
                \/ DeleteGoalRow(c)
                \/ DeleteGoalRejected(c)
                \/ \E id \in GoalIds : GetHistory(c, id)
                \/ \E id \in GoalIds, body \in HistoryBodies : AddHistory(c, id, body)
                \/ \E id \in GoalIds, h \in HistoryIds : DeleteHistory(c, id, h)
    \/ (AuthIdle /\ GoalsIdle /\ ResumeOnly)
          /\ \E c \in {1} :
                \/ \E body \in ProfileBodies : PostProfileReceive(c, body)
                \/ PostProfileCheck(c)
                \/ PostProfileUpdate(c)
                \/ PostProfileInsert(c)
                \/ \E email \in ProfileEmails : GetProfile(c, email)
                \/ \E email \in ProfileEmails : DeleteProfile(c, email)
                \/ \E email \in Owners : GenerateResume(email)
    \/ (AuthIdle /\ GoalsIdle /\ ProfileIdle) /\ NextCrud

SpecErrors == InitCrud /\ [][NextErrors]_vars

(***************************************************************************)
(* The create routes, called for the email a user is stored with, for the  *)
(* email as the user typed it at registration, and without an email; with  *)
(* optional fields omitted, supplied, and supplied as 0 or "".             *)
(***************************************************************************)
TypedEmail == Str(<<" ", "A", " ">>)

CreateEmails == {Undefined, Str(<<"a">>), TypedEmail}

NewUserBodies == {[email |-> TypedEmail, password |-> Str(Secre1)]}

IdeaCreates ==
    {[user_email |-> e, title |-> Str(<<"I">>), content |-> Undefined, category |-> v,
      created_date |-> Undefined] :
        e \in CreateEmails, v \in {Undefined, Str(<<"k">>), Str(<<>>)}}

NoteCreates ==
    {[user_email |-> e, title |-> Str(<<"N">>), content |-> Undefined,
      created_date |-> Undefined] : e \in CreateEmails}

FutureWorkCreates ==
    {[user_email |-> e, title |-> Str(<<"F">>), description |-> Undefined, priority |-> v,
      timeline |-> Undefined, created_date |-> Undefined] :
        e \in CreateEmails, v \in {Undefined, Str(<<"h">>), Str(<<>>)}}

DeadlineCreates ==
    {[user_email |-> e, title |-> Str(<<"D">>), description |-> Undefined,
      due_date |-> Str(<<"1">>), priority |-> v, status |-> w, created_date |-> Undefined] :
        e \in CreateEmails, v \in {Undefined, Str(<<"h">>)}, w \in {Undefined, Str(<<"s">>)}}

EventCreates ==
    {[NoEventBody EXCEPT !.userEmail = e, !.title = Str(<<"M">>), !.date = Str(<<"1">>),
         !.start = Str(<<"2">>), !.reminder = v, !.category = w, !.recurrence = w,
         !.showAs = w, !.priority = w] :
        e \in CreateEmails, v \in {Undefined, Num(5), Num(0)}, w \in {Undefined, Str(<<"c">>)}}

LegacyEventCreates ==
    {[user_email |-> e, title |-> Str(<<"L">>), description |-> Undefined,
      event_date |-> Str(<<"1">>), start_time |-> Str(<<"0">>), end_time |-> Undefined,
      repeat_weekly |-> Undefined, created_date |-> Undefined] : e \in CreateEmails}

GoalCreates ==
    {[user_email |-> e, title |-> Str(<<"P">>), description |-> Undefined,
      progress |-> v, goal_type |-> w, target_date |-> Undefined,
      total_stages |-> v, current_stage |-> v, start_date |-> Undefined,
      stage_description |-> Undefined, created_date |-> Undefined] :
        e \in CreateEmails, v \in {Undefined, Num(3), Num(0)}, w \in {Undefined, Str(<<"g">>)}}

ProfileCreates == {[NoProfileBody EXCEPT !.userEmail = e] : e \in CreateEmails}

\* the tables of the one-statement routes that have been inserted into
CreatedIn ==
    <<ideas_seq, notes_seq, future_work_seq, deadlines_seq, calendar_events_seq>>

MayCreate(seq) == seq > 0 \/ \A k \in DOMAIN CreatedIn : CreatedIn[k] = 0

NextCreates ==
    \/ \E body \in NewUserBodies : RegisterReceive(1, body)
    \/ RegisterInsert(1)
    \/ (GoalsIdle /\ ProfileIdle /\ MayCreate(ideas_seq))
          /\ \E body \in IdeaCreates : CreateIdea(body)
    \/ (GoalsIdle /\ ProfileIdle /\ MayCreate(notes_seq))
          /\ \E body \in NoteCreates : CreateNote(body)
    \/ (GoalsIdle /\ ProfileIdle /\ MayCreate(future_work_seq))
          /\ \E body \in FutureWorkCreates : CreateFutureWork(body)
    \/ (GoalsIdle /\ ProfileIdle /\ MayCreate(deadlines_seq))
          /\ \E body \in DeadlineCreates : CreateDeadline(body)
    \/ (GoalsIdle /\ ProfileIdle /\ MayCreate(calendar_events_seq))
          /\ \E body \in EventCreates : CreateEvent(body)
    \/ (GoalsIdle /\ ProfileIdle /\ MayCreate(calendar_events_seq))
          /\ \E body \in LegacyEventCreates : CreateCalendarEvent(body)
    \/ (ProfileIdle /\ crudReq = IdleRequest)
          /\ \E body \in GoalCreates : CreateGoal(1, body)
    \/ (GoalsIdle /\ crudReq = IdleRequest)
          /\ \/ \E body \in ProfileCreates : PostProfileReceive(1, body)
             \/ PostProfileCheck(1)
             \/ PostProfileUpdate(1)
             \/ PostProfileInsert(1)

\* no user is registered and no row exists
SpecCreates == InitAuth /\ [][NextCreates]_vars

(***************************************************************************)
(* Updates of one row by two connections.                                  *)
(***************************************************************************)
NextUpdates ==
    \/ Tick /\ UNCHANGED <<career_goals, career_goals_seq, career_stage_history,
                           career_stage_history_seq, goalReq>>
            /\ UNCHANGED <<authVars, profVars, crudVars, procVars>>
    \/ MayUse(deadlines_seq)
          /\ \E body \in DeadlineBodies : CreateDeadline(body)
    \/ MayUse(calendar_events_seq)
          /\ \E body \in EventBodies : CreateEvent(body)
    \/ \E c \in Clients, id \in RowIds, body \in DeadlineUpdates :
          deadlines # {} /\ UpdateReceive(c, "updateDeadline", id, body)
    \/ \E c \in Clients, id \in RowIds, body \in EventUpdates :
          calendar_events # {} /\ UpdateReceive(c, "updateEvent", id, body)
    \/ \E c \in Clients : UpdateQuery(c)

SpecUpdates == InitCrud /\ [][NextUpdates]_vars

Init == InitAuth

Next ==
    NextAuth \/ NextGoals \/ NextProfile \/ NextCrud \/ NextValidation \/ NextErrors
       \/ NextStartup \/ NextCreates \/ NextUpdates

Spec == Init /\ [][Next]_vars
(***************************************************************************)
(* Properties of the auth routes.                                          *)
(***************************************************************************)
\* the email of a body, lowercased and trimmed
NormalEmail(body) == trim(toLowerCase(body.email.s))

UserAlreadyExists == AuthFailure(400, "User already exists.")

IsSignUp(req) == req.op \in {"register", "signup"}

Created(req) == IsSignUp(req) /\ req.pc = "done" /\ req.res.status = 200

\* connection c is answered in this step
AnsweredNow(c) == authReq'[c] # authReq[c] /\ authReq'[c].pc = "done"

UniqueEmails(tbl) == \A u1, u2 \in tbl : u1.email = u2.email => u1 = u2

\* of the sign-ups for one normalized email at most one is answered with
\* success, and one answered "User already exists." has the row of another
OneWinner(tbl, req) ==
    /\ \A c1, c2 \in Clients :
          (c1 # c2 /\ Created(req[c1]) /\ Created(req[c2]))
             => NormalEmail(req[c1].body) # NormalEmail(req[c2].body)
    /\ \A c \in Clients :
          (IsSignUp(req[c]) /\ req[c].pc = "done" /\ req[c].res = UserAlreadyExists)
             => \E u \in tbl : u.email = NormalEmail(req[c].body)
    /\ \A c \in Clients :
          Created(req[c])
             => \E u \in tbl : /\ u.id = req[c].res.body.id
                               /\ u.email = NormalEmail(req[c].body)
                               /\ req[c].res.body.email = u.email

\* C1 as it is stated: no two rows of users have the same email, and every
\* register or signup whose lowercased, trimmed email is already registered
\* is answered 400 "User already exists." and adds no row, also when such
\* registrations overlap (exactly one succeeds).
C1_Original ==
    [][/\ UniqueEmails(users')
       /\ OneWinner(users', authReq')
       /\ \A c \in Clients :
             (/\ AnsweredNow(c)
              /\ IsSignUp(authReq'[c])
              /\ authReq'[c].body.email.t = "string"
              /\ \E u \in users : u.email = NormalEmail(authReq'[c].body))
                => (authReq'[c].res = UserAlreadyExists /\ users' = users)]_vars

\* C1, amended: no two rows of users have the same email, and every register
\* or signup that passes validation (email and password present, password of
\* at least 6 characters) and whose lowercased, trimmed email is already
\* registered when its INSERT runs is answered 400 "User already exists."
\* and adds no row, also when such registrations overlap (exactly one
\* succeeds).
C1_UniqueEmail ==
    [][/\ UniqueEmails(users')
       /\ OneWinner(users', authReq')
       /\ \A c \in Clients :
             (/\ AnsweredNow(c)
              /\ IsSignUp(authReq[c])
              /\ authReq[c].pc = "insert"
              /\ \E u \in users : u.email = NormalEmail(authReq[c].body))
                => (authReq'[c].res = UserAlreadyExists /\ users' = users)]_vars

\* two sign-ups whose emails differ as written and agree once normalized have
\* been answered: one created the row, the other was refused
C1_Witness ==
    \E c1, c2 \in Clients :
        /\ Created(authReq[c1])
        /\ IsSignUp(authReq[c2]) /\ authReq[c2].pc = "done"
        /\ authReq[c2].res = UserAlreadyExists
        /\ authReq[c1].body.email # authReq[c2].body.email
        /\ NormalEmail(authReq[c1].body) = NormalEmail(authReq[c2].body)
        /\ Cardinality({u \in users : u.email = NormalEmail(authReq[c1].body)}) = 1

IsLogin(req) == req.op = "login" /\ req.pc = "done"

Present(body) == ~Falsy(body.email) /\ ~Falsy(body.password)

\* a row for the normalized email whose hash the password verifies against
Verifies(tbl, body) ==
    \E u \in tbl : u.email = NormalEmail(body) /\ bcryptCompare(body.password.s, u.password)

LoginSuccess(email) ==
    Json(200, [success |-> TRUE, email |-> email, message |-> "Login successful!"])

\* C2: a login with email and password present succeeds exactly when the
\* users table, as the SELECT read it, has a row for the lowercased, trimmed
\* email whose hash the password verifies against; the success carries the
\* stored email and nothing else (no token), so " A " logs in as "a".
C2_LoginIff ==
    \A c \in Clients :
        (IsLogin(authReq[c]) /\ Present(authReq[c].body))
           => /\ authReq[c].res.status = 200 <=> Verifies(authReq[c].snapshot, authReq[c].body)
              /\ authReq[c].res.status = 200
                    => authReq[c].res = LoginSuccess(NormalEmail(authReq[c].body))
              /\ authReq[c].res.status # 200 => authReq[c].res.status = 400

\* a user registered as "a" has logged in as " A "
C2_Witness ==
    \E c \in Clients :
        /\ IsLogin(authReq[c])
        /\ authReq[c].res.status = 200
        /\ authReq[c].body.email = Str(<<" ", "A", " ">>)
        /\ \E u \in users : u.email = <<"a">> /\ authReq[c].res.body.email = u.email

UnknownEmail(req) ==
    /\ IsLogin(req) /\ Present(req.body)
    /\ ~\E u \in req.snapshot : u.email = NormalEmail(req.body)

WrongPassword(req) ==
    /\ IsLogin(req) /\ Present(req.body)
    /\ \E u \in req.snapshot : u.email = NormalEmail(req.body)
    /\ ~Verifies(req.snapshot, req.body)

\* C3: a login refused because no user has the email is answered exactly as
\* a login refused because the password is wrong: 400 "Invalid credentials."
C3_SameFailure ==
    \A c1, c2 \in Clients :
        (UnknownEmail(authReq[c1]) /\ WrongPassword(authReq[c2]))
           => /\ authReq[c1].res = authReq[c2].res
              /\ authReq[c1].res = AuthFailure(400, "Invalid credentials.")

\* both refusals have been given
C3_Witness ==
    \E c1, c2 \in Clients : UnknownEmail(authReq[c1]) /\ WrongPassword(authReq[c2])

\* C9: a /register with an email and a password of fewer than 6 characters
\* is answered 400 at once and writes no row; one that reaches its INSERT
\* while its email is not registered, its password being of exactly 6
\* characters, is answered 200 and adds exactly one row, whose password is
\* a bcrypt hash of the plaintext and not the plaintext.
C9_PasswordLength ==
    [][\A c \in Clients :
          /\ (/\ authReq'[c] # authReq[c]
              /\ authReq'[c].op = "register"
              /\ Free(authReq[c])
              /\ ~Falsy(authReq'[c].body.email)
              /\ authReq'[c].body.password.t = "string"
              /\ Len(authReq'[c].body.password.s) < 6)
                => (authReq'[c].pc = "done" /\ authReq'[c].res.status = 400 /\ users' = users)
          /\ (/\ authReq'[c] # authReq[c]
              /\ authReq'[c].op = "register"
              /\ Free(authReq[c])
              /\ Present(authReq'[c].body)
              /\ Len(authReq'[c].body.password.s) = 6)
                => authReq'[c].pc = "insert"
          /\ (/\ AnsweredNow(c)
              /\ authReq[c].op = "register"
              /\ authReq[c].pc = "insert"
              /\ Len(authReq[c].body.password.s) = 6
              /\ ~\E u \in users : u.email = NormalEmail(authReq[c].body))
                => /\ authReq'[c].res.status = 200
                   /\ Cardinality(users' \ users) = 1
                   /\ users \subseteq users'
                   /\ \A u \in users' \ users :
                         /\ u.email = NormalEmail(authReq[c].body)
                         /\ u.password # authReq[c].body.password
                         /\ \E salt \in Salts :
                               u.password = bcryptHash(authReq[c].body.password.s, saltRounds, salt)
                         /\ bcryptCompare(authReq[c].body.password.s, u.password)]_vars

\* a /register with a 5-character password was refused and one with a
\* 6-character password has stored a user
C9_Witness ==
    \E c1, c2 \in Clients :
        /\ authReq[c1].op = "register" /\ authReq[c1].pc = "done"
        /\ authReq[c1].body.password = Str(Secr1)
        /\ authReq[c1].res.status = 400
        /\ authReq[c2].op = "register" /\ Created(authReq[c2])
        /\ Len(authReq[c2].body.password.s) = 6
        /\ \E u \in users : u.id = authReq[c2].res.body.id

\* C10: on every body and every state of the users table /signup and
\* /register refuse alike, and when they pass validation their INSERT gives,
\* for each salt bcrypt may draw, the same table, the same sequence and the
\* same response.
C10_SignupIsRegister ==
    \A body \in AuthBodies :
        /\ SignupValidate(body) = RegisterValidate(body)
        /\ RegisterValidate(body) = NoResponse
              => \A salt \in Salts :
                    SignupStore(users, usersSeq, body, salt)
                       = RegisterStore(users, usersSeq, body, salt)

\* the same body was sent to both routes while its email was registered, and
\* both answered alike
C10_Witness ==
    \E c1, c2 \in Clients :
        /\ authReq[c1].op = "register" /\ authReq[c1].pc = "done"
        /\ authReq[c2].op = "signup" /\ authReq[c2].pc = "done"
        /\ authReq[c1].body = authReq[c2].body
        /\ authReq[c1].res = UserAlreadyExists
        /\ authReq[c2].res = authReq[c1].res

(***************************************************************************)
(* Properties of the /career_goals routes.                                 *)
(***************************************************************************)
HistoryOf(id) == {h \in career_stage_history : h.goal_id = id}

\* DELETE /career_goals/:id has answered that it deleted the goal
DeletedGoal(req) ==
    req.op = "deleteGoal" /\ req.pc = "done" /\ req.res = Json(200, [deleted |-> 1])

\* C4: once DELETE /career_goals/:id has deleted a goal and answered 200, no
\* row of career_stage_history has that goal_id, and
\* GET /career_goals/:id/history answers the empty list, however many rows
\* the goal had and whatever was inserted between the two statements of
\* the delete.
C4_NoHistoryAfterDelete ==
    \A c \in Clients :
        DeletedGoal(goalReq[c])
           => /\ HistoryOf(goalReq[c].id) = {}
              /\ SelectHistory(career_stage_history, goalReq[c].id) = {<<>>}

\* a goal that had history rows was deleted
C4_Witness ==
    \E c \in Clients :
        /\ DeletedGoal(goalReq[c])
        /\ goalReq[c].removed >= 1
        /\ HistoryOf(goalReq[c].id) = {}

\* C5 as it is stated: DELETE /career_goals/:id is atomic; in no outcome is
\* a part of the goal and its history removed and the rest kept, so a
\* request that has been answered and has removed history rows of a goal
\* has removed the goal row too.
C5_AtomicDelete ==
    \A c \in Clients :
        (/\ goalReq[c].op = "deleteGoal"
         /\ goalReq[c].pc = "done"
         /\ goalReq[c].removed > 0)
           => ~\E g \in career_goals : g.id = goalReq[c].id

(***************************************************************************)
(* Properties of the /profile routes.                                      *)
(***************************************************************************)
ProfilesOf(tbl, email) == {r \in tbl : r.user_email = email}

\* C6: under every interleaving of POST /profile and DELETE /profile/:email
\* the profiles table has at most one row per user_email.
C6_OneProfilePerUser ==
    \A r1, r2 \in profiles : r1.user_email = r2.user_email => r1 = r2

\* two POST /profile for one email both found no row; one inserted, the
\* other was answered 500
C6_Witness ==
    \E c1, c2 \in Clients :
        /\ c1 # c2
        /\ profReq[c1].op = "postProfile" /\ profReq[c1].pc = "done"
        /\ profReq[c2].op = "postProfile" /\ profReq[c2].pc = "done"
        /\ profReq[c1].email = profReq[c2].email
        /\ profReq[c1].res.status = 200
        /\ "id" \in DOMAIN profReq[c1].res.body
        /\ profReq[c2].res = JsonError(500, "Error saving profile.")
        /\ Cardinality(ProfilesOf(profiles, profReq[c1].email)) = 1

\* POST /profile of connection c runs its statement in this step
Posting(c, branch) ==
    /\ profReq[c].op = "postProfile"
    /\ profReq[c].pc = branch
    /\ profReq'[c].pc = "done"

\* the columns of text and the body fields they are written from
ScalarFields ==
    {<<"full_name", "fullName">>, <<"designation", "designation">>,
     <<"department", "department">>, <<"institution", "institution">>,
     <<"office_address", "officeAddress">>, <<"official_email", "officialEmail">>,
     <<"alternate_email", "alternateEmail">>, <<"phone", "phone">>,
     <<"website", "website">>, <<"research_keywords", "researchKeywords">>,
     <<"research_description", "researchDescription">>, <<"scholar_link", "scholarLink">>,
     <<"professional_activities", "professionalActivities">>, <<"skills", "skills">>,
     <<"outreach_service", "outreachService">>}

ListFields == {"degrees", "employment", "courses", "grants", "awards"}

\* what a list field of a body is read back as
ReadBack(v) == IF v.t = "array" THEN v ELSE Arr(<<>>)

\* the row has the values of the request: each text as sent (NULL when
\* omitted), each list as its JSON text, and the request's timestamp
Carries(row, req) ==
    /\ row.user_email = req.email
    /\ row.modified_date = req.modifiedDate
    /\ \A p \in ScalarFields :
          row[p[1]] = IF req.body[p[2]] = Undefined THEN Null ELSE req.body[p[2]]
    /\ \A f \in ListFields : row[f] = Str(stringify(ReadBack(req.body[f])))

\* C7: a POST /profile that finds no row for its userEmail inserts one, and
\* a POST /profile that follows it finds the row and updates it: afterwards
\* there is exactly one row for the email, with the second call's values,
\* the second call's timestamp as modified_date, and the id and
\* created_date the insert gave.
C7_SecondCallUpdates ==
    [][\A c \in Clients :
          /\ (/\ profReq[c].op = "postProfile" /\ profReq[c].pc = "check"
              /\ profReq'[c] # profReq[c])
                => profReq'[c].pc =
                      IF ProfilesOf(profiles, profReq[c].email) = {} THEN "insert" ELSE "update"
          /\ (Posting(c, "insert") /\ ProfilesOf(profiles, profReq[c].email) = {}
                /\ RefersToUser(users, profReq[c].email))
                => /\ profReq'[c].res.status = 200
                   /\ \E row \in profiles' :
                         /\ ProfilesOf(profiles', profReq[c].email) = {row}
                         /\ row.id = profReq'[c].res.body.id
                         /\ row.created_date = profReq[c].createdDate
                         /\ Carries(row, profReq[c])
                   /\ ~\E r \in profiles : r.id = profReq'[c].res.body.id
          /\ (Posting(c, "update") /\ ProfilesOf(profiles, profReq[c].email) # {})
                => /\ profReq'[c].res = Json(200, [message |-> "Profile updated successfully"])
                   /\ \E old \in ProfilesOf(profiles, profReq[c].email), row \in profiles' :
                         /\ ProfilesOf(profiles', profReq[c].email) = {row}
                         /\ row.id = old.id
                         /\ row.created_date = old.created_date
                         /\ Carries(row, profReq[c])
                   /\ Cardinality(profiles') = Cardinality(profiles)
                   /\ profiles_seq' = profiles_seq]_vars

\* one call created the row and a later call with another body has updated
\* it: the row has the id and created_date of the first and the values and
\* timestamp of the second
C7_Witness ==
    \E c1, c2 \in Clients :
        /\ profReq[c1].op = "postProfile" /\ profReq[c1].pc = "done"
        /\ profReq[c2].op = "postProfile" /\ profReq[c2].pc = "done"
        /\ profReq[c1].email = profReq[c2].email
        /\ profReq[c1].body # profReq[c2].body
        /\ "id" \in DOMAIN profReq[c1].res.body
        /\ profReq[c2].res = Json(200, [message |-> "Profile updated successfully"])
        /\ profReq[c2].modifiedDate.instant > profReq[c1].createdDate.instant
        /\ \E row \in profiles :
              /\ profiles = {row}
              /\ row.id = profReq[c1].res.body.id
              /\ row.created_date = profReq[c1].createdDate
              /\ Carries(row, profReq[c2])

\* C8: when POST /profile has written its row, GET /profile/:email answers
\* 200 with each of degrees, employment, courses, grants and awards equal to
\* the list the body carried, the empty list for a field the body omitted
\* or gave as null; and a column that is NULL or empty reads as the empty
\* list.
C8_ListsRoundTrip ==
    [][/\ \A c \in Clients :
             (/\ Posting(c, "insert") \/ Posting(c, "update")
              /\ profReq'[c].res.status = 200
              /\ ProfilesOf(profiles', profReq[c].email) # {})
                => \A answer \in GetProfileAnswer(profiles', profReq[c].email) :
                      /\ answer.status = 200
                      /\ \A f \in ListFields : answer.body[f] = ReadBack(profReq[c].body[f])
       /\ \A column \in {Null, Str(<<>>)} : ReadList(column) = [ok |-> TRUE, v |-> Arr(<<>>)]]_vars

\* a body with lists of two, one and no objects, and a null list, was
\* written, and GET has answered it
C8_Witness ==
    \E c1, c2 \in Clients :
        /\ profReq[c1].op = "postProfile" /\ profReq[c1].pc = "done"
        /\ profReq[c1].res.status = 200
        /\ profReq[c1].body.degrees = Arr(<<Phd, Msc>>)
        /\ profReq[c1].body.courses = Arr(<<>>)
        /\ profReq[c2].op = "getProfile"
        /\ profReq[c2].email = profReq[c1].email
        /\ profReq[c2].res.status = 200
        /\ profReq[c2].res.body # Null
        /\ profReq[c2].res.body.degrees = Arr(<<Phd, Msc>>)
        /\ profReq[c2].res.body.courses = Arr(<<>>)
        /\ profReq[c2].res.body.awards = Arr(<<Msc>>)

(***************************************************************************)
(* Properties of the one-statement routes.                                 *)
(***************************************************************************)
CreateOps ==
    {"createProject", "createIdea", "createNote", "createFutureWork", "createDeadline",
     "createEvent", "createCalendarEvent"}

UpdateOps ==
    {"updateProject", "updateDescription", "updateIdea", "updateNote", "updateFutureWork",
     "updateDeadline", "updateGoal", "updateEvent", "updateCalendarEvent"}

DeleteOps ==
    {"deleteProject", "deleteIdea", "deleteNote", "deleteFutureWork", "deleteDeadline",
     "deleteEvent", "deleteCalendarEvent"}

\* the table a request is addressed to, before the step and after it
TableOf(op) ==
    CASE op \in {"createProject", "updateProject", "updateDescription", "deleteProject"}
            -> projects
      [] op \in {"createIdea", "updateIdea", "deleteIdea"} -> ideas
      [] op \in {"createNote", "updateNote", "deleteNote"} -> notes
      [] op \in {"createFutureWork", "updateFutureWork", "deleteFutureWork"} -> future_work
      [] op \in {"createDeadline", "updateDeadline", "deleteDeadline"} -> deadlines
      [] op = "updateGoal" -> career_goals
      [] OTHER -> calendar_events

TableAfter(op) ==
    CASE op \in {"createProject", "updateProject", "updateDescription", "deleteProject"}
            -> projects'
      [] op \in {"createIdea", "updateIdea", "deleteIdea"} -> ideas'
      [] op \in {"createNote", "updateNote", "deleteNote"} -> notes'
      [] op \in {"createFutureWork", "updateFutureWork", "deleteFutureWork"} -> future_work'
      [] op \in {"createDeadline", "updateDeadline", "deleteDeadline"} -> deadlines'
      [] op = "updateGoal" -> career_goals'
      [] OTHER -> calendar_events'

AllTables ==
    <<users, career_goals, career_stage_history, profiles, projects, ideas, notes,
      future_work, deadlines, calendar_events>>

\* a request of these routes is answered in this step
CrudAnswered(ops) == crudReq' # crudReq /\ crudReq'.op \in ops

\* the affected-row count a response carries
Count(res) ==
    IF "updated" \in DOMAIN res.body THEN res.body.updated ELSE res.body.deleted

\* C11 as it is stated: an update or a delete addressed to an id that no row
\* of the table has is answered with a success that carries the count 0, and
\* changes no table; so also PUT /projects/:id/description and a delete
\* that is repeated.
C11_MissingIdCountsZero ==
    [][(/\ CrudAnswered(UpdateOps \cup DeleteOps)
        /\ ~\E r \in TableOf(crudReq'.op) : r.id = crudReq'.params.id)
          => /\ crudReq'.res.status = 200
             /\ Count(crudReq'.res) = 0
             /\ AllTables' = AllTables]_vars

\* x stands before y by ascending date and, on one date, by ascending start
DateThenStart(d1, s1, d2, s2) == IF d1 = d2 THEN AscLeq(s1, s2) ELSE AscLeq(d1, d2)

\* the ids of the rows of a list, and of the events of a user
IdsOf(rows) == {rows[i].id : i \in DOMAIN rows}

EventsOf(email) == {r \in calendar_events : r.user_email = email}

\* C12 as it is stated: GET /events/:email and GET /calendar_events/:email
\* answer the events of the user by ascending event_date, those of one date
\* by ascending start_time.
C12_EventsOrdered ==
    /\ crudReq.op = "getEvents"
          => LET rows == crudReq.res.body IN
             /\ IdsOf(rows) = {r.id : r \in EventsOf(crudReq.params.email)}
             /\ \A i, j \in DOMAIN rows :
                   i < j => DateThenStart(rows[i].date, rows[i].start,
                                          rows[j].date, rows[j].start)
    /\ crudReq.op = "getCalendarEvents"
          => LET rows == crudReq.res.body IN
             /\ IdsOf(rows) = {r.id : r \in EventsOf(crudReq.params.email)}
             /\ \A i, j \in DOMAIN rows :
                   i < j => DateThenStart(rows[i].event_date, rows[i].start_time,
                                          rows[j].event_date, rows[j].start_time)

\* C13: GET /deadlines/:email answers the rows of deadlines whose user_email
\* is the email, each once and no other, by ascending due_date (a row
\* without due_date last), whatever creates, updates and deletes went
\* before.
C13_DeadlinesListed ==
    crudReq.op = "getDeadlines"
       => LET rows == crudReq.res.body
              mine == {r \in deadlines : r.user_email = crudReq.params.email}
          IN  /\ crudReq.res.status = 200
              /\ {rows[i] : i \in DOMAIN rows} = mine
              /\ Len(rows) = Cardinality(mine)
              /\ \A i, j \in DOMAIN rows :
                    i < j => AscLeq(rows[i].due_date, rows[j].due_date)

\* two deadlines of one user are listed, the one created first standing
\* last because an update moved its due_date
C13_Witness ==
    /\ crudReq.op = "getDeadlines"
    /\ Len(crudReq.res.body) = 2
    /\ crudReq.res.body[2].id = 1
    /\ crudReq.res.body[2].due_date = Str(<<"3">>)
    /\ crudReq.res.body[1].due_date = Str(<<"1">>)

\* C14 as it is stated: every create (Project, Idea, Note, FutureWork,
\* Deadline, CalendarEvent by POST /events and by POST /calendar_events)
\* stores the created_date the request supplies, and the time of the server
\* when the request has none.
C14_CreatedDate ==
    [][(CrudAnswered(CreateOps) /\ crudReq'.res.status = 200)
          => \E r \in TableAfter(crudReq'.op) \ TableOf(crudReq'.op) :
                /\ r.id = crudReq'.params.id
                /\ "created_date" \in DOMAIN r
                /\ r.created_date =
                      IF crudReq'.body.created_date = Undefined
                      THEN toISOString(now) ELSE crudReq'.body.created_date]_vars

\* C15 as it is stated: every update of an existing calendar event, by
\* PUT /events/:id or PUT /calendar_events/:id, and every POST /profile that
\* updates a row, sets modified_date to the time of the update.
C15_ModifiedDate ==
    [][/\ (/\ CrudAnswered({"updateEvent", "updateCalendarEvent"})
           /\ crudReq'.res = Json(200, [updated |-> 1]))
             => \A r \in calendar_events' :
                   r.id = crudReq'.params.id => r.modified_date = toISOString(now)
       /\ \A c \in Clients :
             (Posting(c, "update") /\ ProfilesOf(profiles, profReq[c].email) # {})
                => \A r \in ProfilesOf(profiles', profReq[c].email) :
                      r.modified_date = profReq[c].modifiedDate]_vars

\* the flags of an event: column and field
BooleanFields ==
    {<<"is_all_day", "isAllDay">>, <<"is_online", "isOnline">>,
     <<"repeat_weekly", "repeatWeekly">>}

\* GET /events/:email answers the event id with the field as the boolean b
ReadsAs(id, email, field, b) ==
    \A answer \in EventsAnswer(calendar_events', email) :
        /\ \E i \in DOMAIN answer : answer[i].id = id
        /\ \A i \in DOMAIN answer : answer[i].id = id => answer[i][field] = Bool(b)

\* C16: POST /events and PUT /events/:id store isAllDay, isOnline and
\* repeatWeekly as 1 when the request has true and as 0 when it has false, 0
\* or nothing, and GET /events/:email then answers the boolean true for the
\* 1 and the boolean false for the 0.
C16_BooleansRoundTrip ==
    [][(CrudAnswered({"createEvent", "updateEvent"}) /\ crudReq'.res.status = 200)
          => \A r \in calendar_events' :
                r.id = crudReq'.params.id
                   => \A p \in BooleanFields :
                         LET written == crudReq'.body[p[2]] IN
                         /\ written = Bool(TRUE)
                               => /\ r[p[1]] = Num(1)
                                  /\ ReadsAs(r.id, r.user_email, p[2], TRUE)
                         /\ written \in {Bool(FALSE), Num(0), Undefined}
                               => /\ r[p[1]] = Num(0)
                                  /\ ReadsAs(r.id, r.user_email, p[2], FALSE)]_vars

\* GET /events/:email has answered an event stored with is_all_day 1 and
\* is_online 0 as isAllDay true and isOnline false
C16_Witness ==
    /\ crudReq.op = "getEvents"
    /\ \E i \in DOMAIN crudReq.res.body :
          LET e == crudReq.res.body[i] IN
          /\ e.isAllDay = Bool(TRUE)
          /\ e.isOnline = Bool(FALSE)
          /\ \E r \in calendar_events :
                r.id = e.id /\ r.is_all_day = Num(1) /\ r.is_online = Num(0)

\* the description of a project: column and field
DescriptionPairs ==
    {
     <<"project_title", "projectTitle">>, <<"notes", "notes">>,
     <<"colleague_name", "colleagueName">>,
     <<"colleague_phone", "colleaguePhone">>,
     <<"colleague_email", "colleagueEmail">>,
     <<"colleague_address1", "colleagueAddress1">>,
     <<"colleague_address2", "colleagueAddress2">>,
     <<"colleague_address3", "colleagueAddress3">>,
     <<"your_name", "yourName">>, <<"your_phone", "yourPhone">>,
     <<"your_email", "yourEmail">>, <<"your_address1", "yourAddress1">>,
     <<"your_address2", "yourAddress2">>,
     <<"your_address3", "yourAddress3">>, <<"objectives", "objectives">>,
     <<"timeline", "timeline">>, <<"primary_audience", "primaryAudience">>,
     <<"secondary_audience", "secondaryAudience">>,
     <<"call_action", "callAction">>, <<"competition", "competition">>,
     <<"graphics", "graphics">>, <<"photography", "photography">>,
     <<"multimedia", "multimedia">>, <<"other_info", "otherInfo">>,
     <<"client_name", "clientName">>,
     <<"client_comments", "clientComments">>,
     <<"approval_date", "approvalDate">>,
     <<"approval_signature", "approvalSignature">>
    }

\* the fields of an event that PUT /events/:id carries: column and field
EventPairs ==
    {<<"title", "title">>, <<"description", "description">>, <<"event_date", "date">>,
     <<"start_time", "start">>, <<"end_time", "end">>, <<"location", "location">>,
     <<"category", "category">>, <<"attendees", "attendees">>, <<"reminder", "reminder">>,
     <<"is_all_day", "isAllDay">>, <<"recurrence", "recurrence">>,
     <<"recurrence_end", "recurrenceEnd">>, <<"show_as", "showAs">>,
     <<"priority", "priority">>, <<"is_online", "isOnline">>,
     <<"meeting_link", "meetingLink">>, <<"attachments", "attachments">>,
     <<"repeat_weekly", "repeatWeekly">>}

Same(columns) == {<<c, c>> : c \in columns}

\* the columns an update route writes, each with the field it is written from
WrittenFields(op) ==
    CASE op = "updateProject" -> Same({"name", "colleagues", "progress"})
      [] op = "updateDescription" -> DescriptionPairs
      [] op = "updateIdea" -> Same({"title", "content", "category"})
      [] op = "updateNote" -> Same({"title", "content"})
      [] op = "updateFutureWork" -> Same({"title", "description", "priority", "timeline"})
      [] op = "updateDeadline" ->
            Same({"title", "description", "due_date", "priority", "status"})
      [] op = "updateGoal" ->
            Same({"title", "description", "progress", "goal_type", "target_date",
                  "total_stages", "current_stage", "start_date", "stage_description"})
      [] op = "updateEvent" -> EventPairs
      [] op = "updateCalendarEvent" ->
            Same({"title", "description", "event_date", "start_time", "end_time",
                  "repeat_weekly"})

\* the mutable fields of the entity an update route addresses: those of a
\* calendar event are the same on both of its routes
MutableFields(op) ==
    IF op = "updateCalendarEvent" THEN Same({p[1] : p \in EventPairs})
    ELSE WrittenFields(op)

\* the field of a body, undefined when the body has no such field
Carried(body, f) == IF f \in DOMAIN body THEN body[f] ELSE Undefined

\* a value as a column holds it: nothing as NULL, a boolean as 1 or 0
StoredAs(v) ==
    IF v = Undefined THEN Null
    ELSE IF v.t = "boolean" THEN (IF v.b THEN Num(1) ELSE Num(0))
    ELSE v

\* an update of a row that exists is answered in this step
UpdatedOne ==
    /\ CrudAnswered(UpdateOps)
    /\ crudReq'.res.status = 200
    /\ Count(crudReq'.res) = 1

Written(op, column, v) ==
    IF op = "updateProject" /\ column = "progress" /\ v = Undefined THEN Num(0)
    ELSE IF op = "updateEvent" /\ column \in {p[1] : p \in BooleanFields}
    THEN (IF Falsy(v) THEN Num(0) ELSE Num(1))
    ELSE StoredAs(v)

C18_DescriptionFrame ==
    [][/\ (CrudAnswered({"updateDescription"})
              /\ \E r \in projects : r.id = crudReq'.params.id)
             => \E old \in projects, r \in projects' :
                   /\ old.id = crudReq'.params.id
                   /\ r.id = old.id
                   /\ projects' \ {r} = projects \ {old}
                   /\ crudReq'.res.status = 200
                   /\ crudReq'.res.body.updated = 1
                   /\ \A p \in DescriptionPairs :
                         /\ r[p[1]] = StoredAs(crudReq'.body[p[2]])
                         /\ crudReq'.res.body.data[p[2]] = r[p[1]]
                   /\ DOMAIN crudReq'.res.body.data = {p[2] : p \in DescriptionPairs}
                   /\ \A c \in DOMAIN r :
                         c \notin {p[1] : p \in DescriptionPairs} => r[c] = old[c]
       /\ (CrudAnswered({"updateProject"})
              /\ \E r \in projects : r.id = crudReq'.params.id)
             => \E old \in projects, r \in projects' :
                   /\ old.id = crudReq'.params.id
                   /\ r.id = old.id
                   /\ \A p \in DescriptionPairs : r[p[1]] = old[p[1]]]_vars

\* the description of project Q was written with two fields only: the other
\* fields are NULL, and name, owner, colleagues and progress are those of
\* the create
C18_Witness ==
    /\ crudReq.op = "updateDescription"
    /\ crudReq.res.status = 200
    /\ crudReq.res.body.updated = 1
    /\ crudReq.body.notes = Undefined
    /\ crudReq.res.body.data.timeline = Str(<<"T">>)
    /\ \E r \in projects :
          /\ r.id = crudReq.params.id
          /\ r.project_title = Str(<<"T">>)
          /\ r.notes = Null
          /\ r.name = Str(<<"Q">>)
          /\ r.owner_email = Str(<<"b">>)
          /\ r.progress = Num(40)

\* a field that a body does not have
Missing(v) == v \in {Undefined, Null, Str(<<>>)}

\* the body of the request lacks what its route requires
Lacking(op, body) ==
    CASE op \in {"register", "signup"} ->
            \/ Missing(body.email)
            \/ Missing(body.password)
            \/ Len(body.password.s) < 6
      [] op = "login" -> Missing(body.email) \/ Missing(body.password)
      [] op = "createProject" -> Missing(body.name) \/ Missing(body.owner_email)
      [] op = "postProfile" -> Missing(body.userEmail)
      [] OTHER -> FALSE

\* the request is answered with the status 400, and as JSON
Refused(req) ==
    /\ req.pc = "done"
    /\ req.res.status = 400
    /\ req.res.type = "application/json"

\* C19: a request that lacks a required field (POST /register, /signup or
\* /login without email or password, /register or /signup with a password
\* of fewer than 6 characters, POST /projects without name or owner_email,
\* POST /profile without userEmail) is answered with the status 400 in the
\* step that receives it, and that step changes no table.
C19_RefusedUnchanged ==
    [][/\ \A c \in Clients :
             (authReq'[c] # authReq[c] /\ Lacking(authReq'[c].op, authReq'[c].body))
                => (Refused(authReq'[c]) /\ AllTables' = AllTables)
       /\ \A c \in Clients :
             (profReq'[c] # profReq[c] /\ Lacking(profReq'[c].op, profReq'[c].body))
                => (Refused(profReq'[c]) /\ AllTables' = AllTables)
       /\ (crudReq' # crudReq /\ Lacking(crudReq'.op, crudReq'.body))
             => (Refused(crudReq') /\ AllTables' = AllTables)]_vars

\* after a registration that stored a second user, a registration with a
\* password of five characters is refused
C19_Witness ==
    /\ Cardinality(users) = 2
    /\ \E c \in Clients :
          /\ authReq[c].op = "register"
          /\ authReq[c].body.password = Str(Secr1)
          /\ authReq[c].res.status = 400

AllRequests ==
    {authReq[c] : c \in Clients} \cup {goalReq[c] : c \in Clients}
       \cup {profReq[c] : c \in Clients} \cup {crudReq}

C26_HistoryRefersToGoal ==
    /\ [](\A h \in career_stage_history : \E g \in career_goals : g.id = h.goal_id)
    /\ [][career_stage_history_seq' # career_stage_history_seq
            => \E c \in Clients :
                  /\ goalReq'[c].op = "addHistory"
                  /\ goalReq'[c].pc = "done"
                  /\ \A d \in Clients \ {c} : goalReq'[d] = goalReq[d]
                  /\ (~\E g \in career_goals : g.id = goalReq'[c].id)
                        => /\ goalReq'[c].res = Json(500, [error |-> "Error adding stage history."])
                           /\ career_stage_history' = career_stage_history]_vars

\* a history insert arrived after the goal row of a DELETE /career_goals/:id
\* was removed and was answered 500, while another goal keeps its history
C26_Witness ==
    \E c1, c2 \in Clients :
        /\ DeletedGoal(goalReq[c1])
        /\ goalReq[c2].op = "addHistory"
        /\ goalReq[c2].pc = "done"
        /\ goalReq[c2].id = goalReq[c1].id
        /\ goalReq[c2].res.status = 500
        /\ HistoryOf(goalReq[c1].id) = {}
        /\ career_stage_history # {}

(***************************************************************************)
(* Two POST /profile racing for one email.                                 *)
(***************************************************************************)
\* the request took the insert branch, stored its row and was answered 200
\* with the row's id
WonInsert(req) ==
    /\ req.op = "postProfile"
    /\ req.pc = "done"
    /\ req.createdDate # Undefined
    /\ req.res.status = 200
    /\ \E row \in profiles : row.id = req.res.body.id /\ row.user_email = req.email

\* C27: when two POST /profile for one user_email without a profile have
\* both seen no row, the first INSERT to run stores its row and is answered
\* 200; the INSERT of the other is refused, the request is answered 500
\* "Error saving profile." and stores nothing, and the row stays the
\* winner's.
C27_OneInsertWins ==
    [][\A c1, c2 \in Clients :
          /\ (/\ c1 # c2
              /\ profReq[c1].op = "postProfile" /\ profReq[c1].pc = "insert"
              /\ profReq[c2].op = "postProfile" /\ profReq[c2].pc = "insert"
              /\ profReq[c1].email = profReq[c2].email
              /\ ProfilesOf(profiles, profReq[c1].email) = {}
              /\ RefersToUser(users, profReq[c1].email)
              /\ Posting(c1, "insert"))
                => /\ profReq'[c1].res.status = 200
                   /\ profReq'[c2] = profReq[c2]
                   /\ \E row \in profiles' :
                         /\ ProfilesOf(profiles', profReq[c1].email) = {row}
                         /\ Carries(row, profReq[c1])
          /\ (/\ c1 # c2
              /\ WonInsert(profReq[c1])
              /\ Posting(c2, "insert")
              /\ profReq[c2].email = profReq[c1].email)
                => /\ profReq'[c2].res = Json(500, [error |-> "Error saving profile."])
                   /\ profiles' = profiles
                   /\ \E row \in profiles' :
                         /\ ProfilesOf(profiles', profReq[c1].email) = {row}
                         /\ row.id = profReq[c1].res.body.id
                         /\ Carries(row, profReq[c1])]_vars

\* both requests took the insert branch with different bodies; one was
\* answered 200 and the later one 500, and the row has the winner's values
\* and not the loser's
C27_Witness ==
    \E c1, c2 \in Clients :
        /\ c1 # c2
        /\ WonInsert(profReq[c1])
        /\ profReq[c2].op = "postProfile" /\ profReq[c2].pc = "done"
        /\ profReq[c2].createdDate # Undefined
        /\ profReq[c2].email = profReq[c1].email
        /\ profReq[c2].body # profReq[c1].body
        /\ profReq[c2].res.status = 500
        /\ profReq[c2].modifiedDate.instant > profReq[c1].modifiedDate.instant
        /\ \E row \in profiles :
              /\ profiles = {row}
              /\ Carries(row, profReq[c1])
              /\ ~Carries(row, profReq[c2])

(***************************************************************************)
(* Properties of the start-up.                                             *)
(***************************************************************************)
\* C24: initializeDatabase is all-or-nothing and not fatal: in every state,
\* and so once it has returned, the committed tables are those the database
\* had before, or those and every table of the CREATE statements, never a
\* part of them; a statement that failed has led to the ROLLBACK; and
\* whatever fails (pool.connect, a statement, the ROLLBACK itself) the
\* process keeps running.
C24_AllOrNothing ==
    /\ initDb.exit = "running"
    /\ initDb.schema \in {initDb.before, initDb.before \cup Schema}
    /\ initDb.pc = "returned"
          => /\ initDb.promise \in {"resolved", "rejected"}
             /\ initDb.promise = "resolved" => initDb.txn = {}
             /\ "Database tables initialized successfully" \in initDb.log
                   => initDb.schema = Schema

\* a CREATE TABLE failed after others had run, the ROLLBACK failed too, the
\* rejection went unhandled, and initializeDatabase has returned: no table
\* exists and the process runs
C24_Witness ==
    /\ initDb.pc = "returned"
    /\ initDb.k \in 2..Len(TableNames)
    /\ initDb.thrown
    /\ initDb.promise = "rejected"
    /\ "Unhandled Rejection at:" \in initDb.log
    /\ initDb.before = {}
    /\ initDb.schema = {}
    /\ initDb.exit = "running"

(***************************************************************************)
(* Reads of keys without data.                                             *)
(***************************************************************************)
ListOps ==
    {"getProjects", "getIdeas", "getNotes", "getCareerGoals", "getFutureWork",
     "getDeadlines", "getEvents", "getCalendarEvents"}

\* the rows a list-by-owner route selects for an email
Listed(op, email) ==
    CASE op = "getProjects" -> {r \in projects : r.owner_email = email}
      [] op = "getIdeas" -> {r \in ideas : r.user_email = email}
      [] op = "getNotes" -> {r \in notes : r.user_email = email}
      [] op = "getCareerGoals" -> {r \in career_goals : r.user_email = email}
      [] op = "getFutureWork" -> {r \in future_work : r.user_email = email}
      [] op = "getDeadlines" -> {r \in deadlines : r.user_email = email}
      [] OTHER -> {r \in calendar_events : r.user_email = email}

TableIndex(op) ==
    CASE op \in {"createProject", "updateProject", "updateDescription", "deleteProject"} -> 5
      [] op \in {"createIdea", "updateIdea", "deleteIdea"} -> 6
      [] op \in {"createNote", "updateNote", "deleteNote"} -> 7
      [] op \in {"createFutureWork", "updateFutureWork", "deleteFutureWork"} -> 8
      [] op \in {"createDeadline", "updateDeadline", "deleteDeadline"} -> 9
      [] op = "updateGoal" -> 2
      [] OTHER -> 10

\* the rows that are not the same after the step, as <<table, id>>
Touched ==
    UNION {{<<k, r.id>> : r \in (AllTables[k] \ AllTables'[k]) \cup (AllTables'[k] \ AllTables[k])} :
              k \in DOMAIN AllTables}

HistoryRowsOf(id) == {<<3, h.id>> : h \in {x \in career_stage_history : x.goal_id = id}}

\* the rows the request of each connection addresses, the request being the
\* one the connection holds after the step: the row of the id in the path
\* (of the email, for a profile), or the row a create inserts
Addressed ==
    LET crud == IF crudReq'.op \in CreateOps \cup UpdateOps \cup DeleteOps
                THEN {<<TableIndex(crudReq'.op), crudReq'.params.id>>}
                ELSE {}
        goal(c) == CASE goalReq'[c].op = "createGoal" -> {<<2, goalReq'[c].id>>}
                     [] goalReq'[c].op = "deleteGoal" ->
                           {<<2, goalReq'[c].id>>} \cup HistoryRowsOf(goalReq'[c].id)
                     [] goalReq'[c].op = "addHistory" -> {<<3, career_stage_history_seq'>>}
                     [] goalReq'[c].op = "deleteHistory" -> HistoryRowsOf(goalReq'[c].id)
                     [] OTHER -> {}
        prof(c) == IF profReq'[c].op \in {"postProfile", "deleteProfile"}
                   THEN {<<4, r.id>> : r \in {x \in profiles \cup profiles' :
                                                 x.user_email = profReq'[c].email}}
                   ELSE {}
        auth(c) == IF authReq'[c].op \in {"register", "signup"}
                   THEN {<<1, usersSeq'>>}
                   ELSE {}
    IN  crud \cup UNION {goal(c) \cup prof(c) \cup auth(c) : c \in Clients}

\* C22: a create, update or delete changes only rows of the table it
\* addresses, and of those only the row of the addressed id or the row it
\* inserts; the rows of every other table and every other row stay as they
\* are.  DELETE /career_goals/:id alone changes more: it removes the rows of
\* career_stage_history of that goal, and no other row of that table.
C22_WritesAreFramed ==
    [][/\ Touched \subseteq Addressed
       /\ (\A c \in Clients : goalReq'[c].op # "deleteGoal")
             => Cardinality(Touched) <= 1]_vars

\* DELETE /career_goals/:id has removed a goal and its history while another
\* goal and its history are still there
C22_Witness ==
    \E c \in Clients :
        /\ DeletedGoal(goalReq[c])
        /\ goalReq[c].removed >= 1
        /\ \E h \in career_stage_history, g \in career_goals :
              h.goal_id = g.id /\ g.id # goalReq[c].id

(***************************************************************************)
(* The values a create stores.                                             *)
(***************************************************************************)
\* the optional fields of a create with a default: the field of the body,
\* the column, the default of the data model
OptionalFields(op) ==
    CASE op = "createIdea" ->
            {<<"category", "category", Str(<<"g", "e", "n", "e", "r", "a", "l">>)>>}
      [] op = "createFutureWork" ->
            {<<"priority", "priority", Str(<<"m", "e", "d", "i", "u", "m">>)>>}
      [] op = "createDeadline" ->
            {<<"priority", "priority", Str(<<"m", "e", "d", "i", "u", "m">>)>>,
             <<"status", "status", Str(<<"p", "e", "n", "d", "i", "n", "g">>)>>}
      [] op \in {"createEvent", "createCalendarEvent"} ->
            {<<"category", "category", Str(<<"W", "o", "r", "k">>)>>,
             <<"reminder", "reminder", Num(15)>>,
             <<"recurrence", "recurrence", Str(<<"n", "o", "n", "e">>)>>,
             <<"showAs", "show_as", Str(<<"b", "u", "s", "y">>)>>,
             <<"priority", "priority", Str(<<"n", "o", "r", "m", "a", "l">>)>>}
      [] op = "createGoal" ->
            {<<"progress", "progress", Num(0)>>,
             <<"goal_type", "goal_type", Str(<<"g", "e", "n", "e", "r", "a", "l">>)>>,
             <<"total_stages", "total_stages", Num(5)>>,
             <<"current_stage", "current_stage", Num(0)>>}
      [] OTHER -> {}

\* the field of the body, undefined when the route does not read it
Supplied(body, f) == IF f \in DOMAIN body THEN body[f] ELSE Undefined

\* the row has each optional field as the body supplies it, and the default
\* where the body omits it
AsSuppliedOrDefault(op, body, row) ==
    \A t \in OptionalFields(op) :
        row[t[2]] = IF Supplied(body, t[1]) = Undefined THEN t[3] ELSE body[t[1]]

\* C23 as it is stated: POST /career_goals with only user_email and title
\* stores progress 0, goal_type 'general', total_stages 5 and current_stage
\* 0; and every create stores an optional field as the caller supplied it
\* and the default of the data model for one the caller omitted.
C23_SuppliedOrDefault ==
    [][/\ (crudReq' # crudReq /\ crudReq'.op \in CreateOps /\ crudReq'.res.status = 200)
            => AsSuppliedOrDefault(crudReq'.op, crudReq'.body, crudReq'.res.body)
       /\ \A body \in GoalCreates :
             (CreateGoal(1, body) /\ goalReq'[1].res.status = 200)
               => AsSuppliedOrDefault("createGoal", body, goalReq'[1].res.body)]_vars

(***************************************************************************)
(* The owner of a row is a user.                                           *)
(***************************************************************************)
OwnedTables ==
    <<ideas, notes, career_goals, future_work, deadlines, calendar_events, profiles>>

\* the email a create is called for
EmailOf(body) == IF "userEmail" \in DOMAIN body THEN body.userEmail ELSE body.user_email

\* the email is given and is not the email of a row of users
NotStored(email) ==
    /\ email.t = "string"
    /\ email.s # <<>>
    /\ ~\E u \in users : u.email = email.s

\* C28: in every reachable state each row of ideas, notes, career_goals,
\* future_work, deadlines, calendar_events and profiles with a user_email
\* that is not NULL has the email of a row of users, which is stored trimmed
\* and in lower case; and a create called for an email that is not exactly
\* the email of a row of users, the email in the case the user registered
\* with included, is answered 500 and writes nothing.
C28_OwnerIsUser ==
    /\ [](/\ \A k \in DOMAIN OwnedTables : \A r \in OwnedTables[k] :
                r.user_email # Null => \E u \in users : Str(u.email) = r.user_email
          /\ \A u \in users : u.email = trim(toLowerCase(u.email)))
    /\ [][/\ (/\ crudReq' # crudReq
              /\ crudReq'.op \in CreateOps \ {"createProject"}
              /\ NotStored(EmailOf(crudReq'.body)))
                => /\ crudReq'.res.status = 500
                   /\ TableAfter(crudReq'.op) = TableOf(crudReq'.op)
          /\ \A body \in GoalCreates :
                (CreateGoal(1, body) /\ NotStored(body.user_email))
                  => /\ goalReq'[1].res.status = 500
                     /\ career_goals' = career_goals
          /\ \A c \in Clients :
                (Posting(c, "insert") /\ NotStored(profReq[c].email))
                  => /\ profReq'[c].res.status = 500
                     /\ profiles' = profiles]_vars

\* a user registered as " A " is stored as "a" and owns an idea; POST /ideas
\* for " A " was answered 500
C28_Witness ==
    /\ authReq[1].op = "register"
    /\ authReq[1].body.email = TypedEmail
    /\ authReq[1].res.status = 200
    /\ \E u \in users : u.email = <<"a">>
    /\ \E r \in ideas : r.user_email = Str(<<"a">>)
    /\ crudReq.op = "createIdea"
    /\ crudReq.body.user_email = TypedEmail
    /\ crudReq.res.status = 500

(***************************************************************************)
(* C25                                                                     *)
(***************************************************************************)
\* connection c holds an answered PUT for row id of the table of op
Updated(c, op, id) ==
    /\ updReq[c].pc = "done"
    /\ updReq[c].op = op
    /\ updReq[c].id = id

\* row r carries every value of the SET clause of the request of c
CarriesSetOf(r, c) == \A col \in DOMAIN updReq[c].set : r[col] = updReq[c].set[col]

\* C25: when two requests PUT the same existing row through the same route
\* while both are in progress, each is answered updated = 1, the statement
\* of each writes its whole SET clause and leaves the other columns alone, and
\* once both are answered the row carries the whole SET clause of one of the
\* two, the one whose statement ran last, never values of both.
C25_LastStatementWins ==
    /\ [](\A c, d \in Clients : \A id \in RowIds :
            (/\ c # d
             /\ Updated(c, updReq[c].op, id)
             /\ Updated(d, updReq[c].op, id)
             /\ updReq[c].res = Json(200, [updated |-> 1])
             /\ updReq[d].res = Json(200, [updated |-> 1]))
               => \A r \in TableOf(updReq[c].op) :
                     r.id = id => CarriesSetOf(r, c) \/ CarriesSetOf(r, d))
    /\ [][\A c, d \in Clients :
            (/\ c # d
             /\ updReq[c].pc = "query"
             /\ updReq'[c].pc = "done"
             /\ updReq[d].op = updReq[c].op
             /\ updReq[d].id = updReq[c].id
             /\ \E r \in TableOf(updReq[c].op) : r.id = updReq[c].id)
               => /\ updReq'[c].res = Json(200, [updated |-> 1])
                  /\ updReq'[d] = updReq[d]
                  /\ \A r \in TableOf(updReq[c].op) :
                        IF r.id # updReq[c].id
                        THEN r \in TableAfter(updReq[c].op)
                        ELSE \E n \in TableAfter(updReq[c].op) :
                                /\ n.id = r.id
                                /\ CarriesSetOf(n, c)
                                /\ \A col \in DOMAIN r \ DOMAIN updReq[c].set :
                                      n[col] = r[col]
                  /\ Cardinality(TableAfter(updReq[c].op))
                        = Cardinality(TableOf(updReq[c].op))]_vars

\* two PUT /events/1 with different bodies were both answered updated = 1;
\* the request of connection 1 was received first (modified_date 0), that of
\* connection 2 later (modified_date 1), and the row carries the whole SET
\* clause of connection 1: its statement ran after that of connection 2, so
\* both requests were in progress at once
C25_Witness ==
    /\ Updated(1, "updateEvent", 1)
    /\ Updated(2, "updateEvent", 1)
    /\ updReq[1].res = Json(200, [updated |-> 1])
    /\ updReq[2].res = Json(200, [updated |-> 1])
    /\ updReq[1].body # updReq[2].body
    /\ updReq[1].set.modified_date = toISOString(0)
    /\ updReq[2].set.modified_date = toISOString(1)
    /\ \E r \in calendar_events :
          /\ r.id = 1
          /\ CarriesSetOf(r, 1)
          /\ ~CarriesSetOf(r, 2)
====
